---- MODULE Spec2Model ----
(***************************************************************************)
(* A model of the GFF V3.2 codec of gff-rs: the Packer (packer.rs), that   *)
(* lays a tree of GffStruct out in six blocks behind a 56 byte header, and *)
(* the GffParser (parser.rs), that reads such a buffer back into a tree.   *)
(*                                                                         *)
(* Bytes are 0..255 and blocks are sequences of bytes.  A u32 is held as   *)
(* the integer congruent to it modulo 2^32 in -2^31 .. 2^31-1 (its two's   *)
(* complement reading), so that every u32 has one representation and the   *)
(* arithmetic that may wrap is written out on 16 bit limbs.  A 64 bit      *)
(* value is the pair <<low u32, high u32>>.  Floats are held by their bit  *)
(* pattern.  A String is a sequence of code points.                        *)
(***************************************************************************)
EXTENDS Integers, Sequences, FiniteSets, TLC

VARIABLES tree, structs, current_st_idx, packer, packed, pc, err,
          buf, wild, parsed, round, prev, gff_value, unpacked

vars == <<tree, structs, current_st_idx, packer, packed, pc, err,
          buf, wild, parsed, round, prev, gff_value, unpacked>>

(***************************************************************************)
(* Bounds of the model.                                                    *)
(***************************************************************************)
\* how many of the sample trees are packed
MaxTree == 21
\* how many of the sample trees have their packed buffer damaged
MaxWildTree == 5
\* how many bytes may be cut from, or added to, the end of a buffer
MaxResize == 1

(***************************************************************************)
(* Integers of fixed width.                                                *)
(***************************************************************************)
RECURSIVE LE(_, _)
\* to_le_bytes: the n low bytes of v, lowest first
LE(v, n) == IF n = 0 THEN <<>> ELSE <<v % 256>> \o LE(v \div 256, n - 1)

\* u64/i64/f64 to_le_bytes, of <<low, high>>
LE8(v) == LE(v[1], 4) \o LE(v[2], 4)

\* le_u8
le_u8(b) == b[1]

\* le_i8
le_i8(b) == IF b[1] >= 128 THEN b[1] - 256 ELSE b[1]

\* le_u16
le_u16(b) == b[1] + 256 * b[2]

\* le_i16
le_i16(b) == b[1] + 256 * (IF b[2] >= 128 THEN b[2] - 256 ELSE b[2])

\* le_u32 and le_i32 and le_f32: four bytes to the representation of the u32
le_u32(b) ==
    b[1] + 256 * b[2] + 65536 * b[3]
         + 16777216 * (IF b[4] >= 128 THEN b[4] - 256 ELSE b[4])

\* le_u64, le_i64, le_f64
le_u64(b) == <<le_u32(SubSeq(b, 1, 4)), le_u32(SubSeq(b, 5, 8))>>

\* a < b on u32
ULt(a, b) == IF (a >= 0) = (b >= 0) THEN a < b ELSE a >= 0

\* a * k on u32, k <= 16: the wrapped product and whether it overflowed
Mul32(a, k) ==
    LET lo  == a % 65536
        hi  == (a \div 65536) % 65536
        p   == lo * k
        q   == hi * k + (p \div 65536)
        rhi == q % 65536
    IN [v   |-> (IF rhi >= 32768 THEN rhi - 65536 ELSE rhi) * 65536 + (p % 65536),
        ovf |-> q >= 65536]

\* the builds of the crate: overflow checks are on in debug and off in release
Builds == {"debug", "release"}

Min(a, b) == IF a < b THEN a ELSE b

(***************************************************************************)
(* Strings.                                                                *)
(***************************************************************************)
\* char::encode_utf8
Utf8Char(c) ==
    IF c < 128 THEN <<c>>
    ELSE IF c < 2048 THEN <<192 + (c \div 64), 128 + (c % 64)>>
    ELSE IF c < 65536
         THEN <<224 + (c \div 4096), 128 + ((c \div 64) % 64), 128 + (c % 64)>>
    ELSE <<240 + (c \div 262144), 128 + ((c \div 4096) % 64),
           128 + ((c \div 64) % 64), 128 + (c % 64)>>

RECURSIVE Utf8(_)
\* String::as_bytes, String::into_bytes
Utf8(s) == IF s = <<>> THEN <<>> ELSE Utf8Char(Head(s)) \o Utf8(Tail(s))

IsCont(b) == b >= 128 /\ b < 192

RECURSIVE from_utf8(_)
\* String::from_utf8: [ok, s]
from_utf8(b) ==
    IF b = <<>> THEN [ok |-> TRUE, s |-> <<>>]
    ELSE
      LET b1 == b[1]
          n  == IF b1 < 128 THEN 1
                ELSE IF b1 >= 194 /\ b1 < 224 THEN 2
                ELSE IF b1 >= 224 /\ b1 < 240 THEN 3
                ELSE IF b1 >= 240 /\ b1 < 245 THEN 4
                ELSE 0
          good ==
            /\ n > 0
            /\ Len(b) >= n
            /\ \A i \in 2..n : IsCont(b[i])
            /\ (b1 = 224) => b[2] >= 160
            /\ (b1 = 237) => b[2] < 160
            /\ (b1 = 240) => b[2] >= 144
            /\ (b1 = 244) => b[2] < 144
          c == IF n = 1 THEN b1
               ELSE IF n = 2 THEN (b1 - 192) * 64 + (b[2] - 128)
               ELSE IF n = 3
                    THEN (b1 - 224) * 4096 + (b[2] - 128) * 64 + (b[3] - 128)
               ELSE (b1 - 240) * 262144 + (b[2] - 128) * 4096
                      + (b[3] - 128) * 64 + (b[4] - 128)
      IN IF ~good THEN [ok |-> FALSE, s |-> <<>>]
         ELSE LET r == from_utf8(SubSeq(b, n + 1, Len(b)))
              IN [ok |-> r.ok, s |-> IF r.ok THEN <<c>> \o r.s ELSE <<>>]

\* char::to_lowercase on the code points below 256
LowerChar(c) ==
    IF (c >= 65 /\ c <= 90) \/ (c >= 192 /\ c <= 222 /\ c # 215)
    THEN c + 32 ELSE c

\* str::to_lowercase
to_lowercase(s) == [i \in 1..Len(s) |-> LowerChar(s[i])]

\* the code points windows-1252 gives the bytes 0x80..0x9F
Cp1252High ==
    <<8364, 129, 8218, 402, 8222, 8230, 8224, 8225, 710, 8240, 352, 8249,
      338, 141, 381, 143, 144, 8216, 8217, 8220, 8221, 8226, 8211, 8212,
      732, 8482, 353, 8250, 339, 157, 382, 376>>

RECURSIVE Digits(_)
\* the decimal digits of n, in ASCII
Digits(n) == IF n < 10 THEN <<48 + n>> ELSE Digits(n \div 10) \o <<48 + (n % 10)>>

\* Encoding::encode of one code point: the byte of the code page, and a
\* numeric character reference for a code point the code page lacks.  Only
\* windows-1252 is tabulated; the other code pages agree with it on ASCII.
EncodeChar(c) ==
    IF c < 128 \/ (c >= 160 /\ c < 256) THEN <<c>>
    ELSE IF \E i \in 1..32 : Cp1252High[i] = c
         THEN <<127 + (CHOOSE i \in 1..32 : Cp1252High[i] = c)>>
    ELSE <<38, 35>> \o Digits(c) \o <<59>>

RECURSIVE encode(_)
\* Encoding::encode
encode(s) == IF s = <<>> THEN <<>> ELSE EncodeChar(Head(s)) \o encode(Tail(s))

\* Encoding::decode
decode(b) ==
    [i \in 1..Len(b) |->
        IF b[i] < 128 \/ b[i] >= 160 THEN b[i] ELSE Cp1252High[b[i] - 127]]

\* GffLang: the values of the enum
GffLang == {0, 1, 2, 3, 4, 5, 128, 129, 130, 131}

\* a resolver that knows one code page only
encodings_1252(lang) == "WINDOWS_1252"

\* Encodings::NeverwinterNights: the name of the code page, or "Err".
\* lang is <<>> for None and <<n>> for Some(n).
encodings(lang) ==
    IF lang = <<>> THEN "WINDOWS_1252"
    ELSE IF lang[1] \in {0, 1, 2, 3, 4} THEN "WINDOWS_1252"
    ELSE IF lang[1] = 5 THEN "WINDOWS_1250"
    ELSE IF lang[1] = 128 THEN "EUC_KR"
    ELSE IF lang[1] = 129 THEN "BIG5"
    ELSE IF lang[1] = 130 THEN "GBK"
    ELSE IF lang[1] = 131 THEN "SHIFT_JIS"
    ELSE "Err"

(***************************************************************************)
(* The value model (common.rs).  A field value is [t |-> variant, v |->    *)
(* payload]; a struct is [st_type, fields], fields a function from its     *)
(* labels; a place in the tree that is packed is a path from the root, a   *)
(* sequence of <<label, 0>> (the target of a Struct field) and <<label, j>>*)
(* (element j of a List field): the model's form of a &GffStruct.          *)
(***************************************************************************)
GffStruct(st_type, fields) == [st_type |-> st_type, fields |-> fields]

Byte(v) == [t |-> "Byte", v |-> v]
Char(v) == [t |-> "Char", v |-> v]
Word(v) == [t |-> "Word", v |-> v]
Short(v) == [t |-> "Short", v |-> v]
DWord(v) == [t |-> "DWord", v |-> v]
\* GffFieldValue::Int (Int names the integers)
GffInt(v) == [t |-> "Int", v |-> v]
DWord64(v) == [t |-> "DWord64", v |-> v]
Int64(v) == [t |-> "Int64", v |-> v]
Float(v) == [t |-> "Float", v |-> v]
Double(v) == [t |-> "Double", v |-> v]
CExoString(s) == [t |-> "CExoString", v |-> s]
CResRef(s) == [t |-> "CResRef", v |-> s]
CExoLocString(str_ref, strs) ==
    [t |-> "CExoLocString", v |-> [str_ref |-> str_ref, strs |-> strs]]
Void(b) == [t |-> "Void", v |-> b]
Struct(st) == [t |-> "Struct", v |-> st]
List(sts) == [t |-> "List", v |-> sts]
Invalid == [t |-> "Invalid", v |-> 0]

RECURSIVE NodeAt(_, _)
\* the struct a path refers to
NodeAt(st, path) ==
    IF path = <<>> THEN st
    ELSE LET step == Head(path)
             val  == st.fields[step[1]]
         IN NodeAt(IF step[2] = 0 THEN val.v ELSE val.v[step[2]], Tail(path))

(***************************************************************************)
(* The Packer (packer.rs).  A packer is [labels, data, header, writer]:    *)
(* labels the HashMap<String, u32> as a set of <<label, index>>, data the  *)
(* six blocks, header the GffHeader whose OffsetCount pairs are            *)
(* <<offset, count>>, writer the bytes handed to the sink.                 *)
(***************************************************************************)
\* GffHeader::default
GffHeaderDefault ==
    [gff_type      |-> <<32, 32, 32, 32>>,
     version       |-> <<86, 51, 46, 50>>,
     structs       |-> <<0, 0>>,
     fields        |-> <<0, 0>>,
     labels        |-> <<0, 0>>,
     field_data    |-> <<0, 0>>,
     field_indices |-> <<0, 0>>,
     list_indices  |-> <<0, 0>>]

\* PackData::new
PackDataNew ==
    [structs |-> <<>>, fields |-> <<>>, labels |-> <<>>,
     field_data |-> <<>>, field_indices |-> <<>>, list_indices |-> <<>>]

\* Packer::new
PackerNew ==
    [labels |-> {}, data |-> PackDataNew, header |-> GffHeaderDefault,
     writer |-> <<>>]

\* Packer::pack_val_1
pack_val_1(p, ftype, label_idx, val) ==
    [p EXCEPT !.data.fields =
        @ \o LE(ftype, 4) \o LE(label_idx, 4) \o <<val>> \o <<0, 0, 0>>]

\* Packer::pack_val_2
pack_val_2(p, ftype, label_idx, val) ==
    [p EXCEPT !.data.fields =
        @ \o LE(ftype, 4) \o LE(label_idx, 4) \o val \o <<0, 0>>]

\* Packer::pack_val_4
pack_val_4(p, ftype, label_idx, val) ==
    [p EXCEPT !.data.fields = @ \o LE(ftype, 4) \o LE(label_idx, 4) \o val]

\* pack_data_offset with the start of field_data for the offset
pack_data_offset_start(p, ftype, label_idx) ==
    pack_val_4(p, ftype, label_idx, LE(0, 4))

\* Packer::pack_data_offset
pack_data_offset(p, ftype, label_idx) ==
    pack_val_4(p, ftype, label_idx, LE(Len(p.data.field_data), 4))

\* Packer::pack_val_8
pack_val_8(p, ftype, label_idx, val) ==
    LET p1 == pack_data_offset(p, ftype, label_idx)
    IN [p1 EXCEPT !.data.field_data = @ \o val,
                  !.header.field_data[2] = @ + 8]

\* Packer::pack_data_u32
pack_data_u32(p, val) ==
    [p EXCEPT !.data.field_data = @ \o LE(val, 4),
              !.header.field_data[2] = @ + 4]

\* pack_data_slice, had it left the count of field_data as it was
pack_data_slice_uncounted(p, val) ==
    [p EXCEPT !.data.field_data = @ \o val]

\* Packer::pack_data_slice
pack_data_slice(p, val) ==
    [p EXCEPT !.data.field_data = @ \o val,
              !.header.field_data[2] = @ + Len(val)]

\* Packer::pack_list_u32
pack_list_u32(p, val) ==
    [p EXCEPT !.data.list_indices = @ \o LE(val, 4),
              !.header.list_indices[2] = @ + 4]

\* the 16 bytes of a label slot: the label's bytes, then NULs
LabelSlot(label_data) ==
    [i \in 1..16 |-> IF Len(label_data) >= i THEN label_data[i] ELSE 0]

\* pack_label without the map of the labels written: every label is new
pack_label_fresh(p, label) ==
    LET label_idx == p.header.labels[2]
        p2 == [p EXCEPT !.labels = @ \cup {<<label, label_idx>>},
                        !.header.labels[2] = @ + 1]
        label_data == Utf8(label)
    IN IF Len(label_data) > 16
       THEN [pk |-> p2, ok |-> FALSE, ret |-> "label too long"]
       ELSE [pk  |-> [p2 EXCEPT !.data.labels = @ \o LabelSlot(label_data)],
             ok  |-> TRUE,
             ret |-> label_idx]

\* pack_label without the check of the length: the label is cut at 16 bytes
pack_label_unchecked(p, label) ==
    LET max_label_idx == Cardinality(p.labels)
        known     == \E e \in p.labels : e[1] = label
        label_idx == IF known THEN (CHOOSE e \in p.labels : e[1] = label)[2]
                     ELSE max_label_idx
        p1 == [p EXCEPT !.labels = IF known THEN @ ELSE @ \cup {<<label, label_idx>>}]
    IN IF label_idx = p1.header.labels[2]
       THEN [pk  |-> [p1 EXCEPT !.header.labels[2] = @ + 1,
                                !.data.labels = @ \o LabelSlot(Utf8(label))],
             ok  |-> TRUE,
             ret |-> label_idx]
       ELSE [pk |-> p1, ok |-> TRUE, ret |-> label_idx]

\* Packer::pack_label: [pk, ok, ret], ret the label index or the error
pack_label(p, label) ==
    LET max_label_idx == Cardinality(p.labels)
        known     == \E e \in p.labels : e[1] = label
        label_idx == IF known THEN (CHOOSE e \in p.labels : e[1] = label)[2]
                     ELSE max_label_idx
        p1 == [p EXCEPT !.labels = IF known THEN @ ELSE @ \cup {<<label, label_idx>>}]
    IN IF label_idx = p1.header.labels[2]
       THEN LET p2 == [p1 EXCEPT !.header.labels[2] = @ + 1]
                label_data == Utf8(label)
            IN IF Len(label_data) > 16
               THEN [pk |-> p2, ok |-> FALSE, ret |-> "label too long"]
               ELSE [pk  |-> [p2 EXCEPT !.data.labels = @ \o LabelSlot(label_data)],
                     ok  |-> TRUE,
                     ret |-> label_idx]
       ELSE [pk |-> p1, ok |-> TRUE, ret |-> label_idx]

\* the keys of a localized string in the order its HashMap is iterated,
\* given an order sord of all the keys there may be
SubOrder(strs, sord) == SelectSeq(sord, LAMBDA k : k \in DOMAIN strs)

RECURSIVE SumLenBare(_, _)
\* the sum of the encoded lengths alone over the substrings keys[1..]
SumLenBare(strs, keys) ==
    IF keys = <<>> THEN 0
    ELSE Len(encode(strs[Head(keys)])) + SumLenBare(strs, Tail(keys))

RECURSIVE SumLen(_, _)
\* the sum of 8 + the encoded length over the substrings keys[1..]
SumLen(strs, keys) ==
    IF keys = <<>> THEN 0
    ELSE 8 + Len(encode(strs[Head(keys)])) + SumLen(strs, Tail(keys))

RECURSIVE PackSubstringsFlat(_, _, _)
\* the substrings written with the key gender + lang
PackSubstringsFlat(p, strs, keys) ==
    IF keys = <<>> THEN p
    ELSE LET lang   == Head(keys)[1]
             gender == Head(keys)[2]
             s      == encode(strs[Head(keys)])
             p1 == pack_data_u32(p, gender + lang)
             p2 == pack_data_u32(p1, Len(s))
             p3 == pack_data_slice(p2, s)
         IN PackSubstringsFlat(p3, strs, Tail(keys))

RECURSIVE PackSubstrings(_, _, _)
\* the loop of pack_field over val_encoded
PackSubstrings(p, strs, keys) ==
    IF keys = <<>> THEN p
    ELSE LET lang   == Head(keys)[1]
             gender == Head(keys)[2]
             s      == encode(strs[Head(keys)])
             p1 == pack_data_u32(p, gender + 2 * lang)
             p2 == pack_data_u32(p1, Len(s))
             p3 == pack_data_slice(p2, s)
         IN PackSubstrings(p3, strs, Tail(keys))

RECURSIVE PackListEntriesStale(_, _, _, _, _)
\* the loop over the structs of a List, had it written current_st_idx
\* before adding one to it
PackListEntriesStale(m, here, field_name, n, j) ==
    IF j > n THEN m
    ELSE PackListEntriesStale(
           [m EXCEPT !.cur = @ + 1,
                     !.pk = pack_list_u32(@, m.cur),
                     !.structs = Append(@, here \o <<<<field_name, j>>>>)],
           here, field_name, n, j + 1)

RECURSIVE PackListEntriesOnce(_, _, _, _, _)
\* the loop over the structs of a List, had it added one to current_st_idx
\* for the list and not for each of its structs
PackListEntriesOnce(m, here, field_name, n, j) ==
    IF j > n THEN m
    ELSE PackListEntriesOnce(
           [m EXCEPT !.cur = IF j = 1 THEN @ + 1 ELSE @,
                     !.pk = pack_list_u32(@, IF j = 1 THEN m.cur + 1 ELSE m.cur),
                     !.structs = Append(@, here \o <<<<field_name, j>>>>)],
           here, field_name, n, j + 1)

RECURSIVE PackListEntries(_, _, _, _, _)
\* the loop of pack_field over the structs of a List, from element j
PackListEntries(m, here, field_name, n, j) ==
    IF j > n THEN m
    ELSE PackListEntries(
           [m EXCEPT !.cur = @ + 1,
                     !.pk = pack_list_u32(@, m.cur + 1),
                     !.structs = Append(@, here \o <<<<field_name, j>>>>)],
           here, field_name, n, j + 1)

\* the Ok of pack_field: the index of the field record just written
FieldOk(m, pk) == [m EXCEPT !.pk = pk, !.ok = TRUE, !.ret = pk.header.fields[2] - 1]

\* the Ok of the List arm of pack_field, after its loop over the elements
ListOk(m2) == FieldOk(m2, m2.pk)

\* the bytes of a CResRef as they are given: no to_lowercase
ResRefDataRaw(val) == Utf8(val)

\* the str_data of a CResRef: s.to_lowercase().as_bytes()
ResRefData(val) == Utf8(to_lowercase(val))

\* the body of pack_field after pack_label has given l
PackFieldValue(m, l, here, field_name, field_value, sord) ==
    IF ~l.ok THEN [m EXCEPT !.pk = l.pk, !.ok = FALSE, !.ret = l.ret]
    ELSE
      LET label_idx == l.ret
          p   == [l.pk EXCEPT !.header.fields[2] = @ + 1]
          t   == field_value.t
          val == field_value.v
      IN CASE t = "Byte"    -> FieldOk(m, pack_val_1(p, 0, label_idx, val))
           [] t = "Char"    -> FieldOk(m, pack_val_1(p, 1, label_idx, val % 256))
           [] t = "Word"    -> FieldOk(m, pack_val_2(p, 2, label_idx, LE(val, 2)))
           [] t = "Short"   -> FieldOk(m, pack_val_2(p, 3, label_idx, LE(val, 2)))
           [] t = "DWord"   -> FieldOk(m, pack_val_4(p, 4, label_idx, LE(val, 4)))
           [] t = "Int"     -> FieldOk(m, pack_val_4(p, 5, label_idx, LE(val, 4)))
           [] t = "DWord64" -> FieldOk(m, pack_val_8(p, 6, label_idx, LE8(val)))
           [] t = "Int64"   -> FieldOk(m, pack_val_8(p, 7, label_idx, LE8(val)))
           [] t = "Float"   -> FieldOk(m, pack_val_4(p, 8, label_idx, LE(val, 4)))
           [] t = "Double"  -> FieldOk(m, pack_val_8(p, 9, label_idx, LE8(val)))
           [] t = "CExoString" ->
                FieldOk(m, pack_data_slice(
                             pack_data_u32(pack_data_offset(p, 10, label_idx),
                                           Len(encode(val))),
                             encode(val)))
           [] t = "CResRef" ->
                IF Len(ResRefData(val)) > 16
                THEN [m EXCEPT !.pk = pack_data_offset(p, 11, label_idx),
                               !.ok = FALSE, !.ret = "ResRef too long"]
                ELSE FieldOk(m, pack_data_slice(
                       [pack_data_offset(p, 11, label_idx)
                          EXCEPT !.data.field_data =
                                   Append(@, Len(ResRefData(val))),
                                 !.header.field_data[2] = @ + 1],
                       ResRefData(val)))
           [] t = "CExoLocString" ->
                FieldOk(m, PackSubstrings(
                  pack_data_u32(
                    pack_data_u32(
                      pack_data_u32(pack_data_offset(p, 12, label_idx),
                                    8 + SumLen(val.strs, SubOrder(val.strs, sord))),
                      val.str_ref),
                    Len(SubOrder(val.strs, sord))),
                  val.strs, SubOrder(val.strs, sord)))
           [] t = "Void" ->
                FieldOk(m, pack_data_slice(
                             pack_data_u32(pack_data_offset(p, 13, label_idx),
                                           Len(val)),
                             val))
           [] t = "Struct" ->
                FieldOk([m EXCEPT !.cur = @ + 1,
                                  !.structs = Append(@, here \o <<<<field_name, 0>>>>)],
                        pack_val_4(p, 14, label_idx, LE(m.cur + 1, 4)))
           [] t = "List" ->
                ListOk(PackListEntries(
                         [m EXCEPT !.pk =
                            pack_list_u32(
                              pack_val_4(p, 15, label_idx,
                                         LE(p.header.list_indices[2], 4)),
                              Len(val))],
                         here, field_name, Len(val), 1))
           [] OTHER -> [m EXCEPT !.pk = p, !.ok = FALSE, !.ret = "Not handled yet"]

\* Packer::pack_field, of the field field_name of the struct at path here.
\* m is [pk, structs, cur, ok, ret]: the packer, the queue and
\* current_st_idx of pack, and the Result (ret the field index, or the error).
pack_field(m, here, field_name, field_value, sord) ==
    PackFieldValue(m, pack_label(m.pk, field_name), here, field_name,
                   field_value, sord)

RECURSIVE PackFields(_, _, _, _, _, _, _)
\* the ? of pack_struct on the Result of pack_field, and the push of the id
PackFieldsNext(m1, here, st, ford, sord, i, field_indices) ==
    IF ~m1.ok THEN m1
    ELSE PackFields(m1, here, st, ford, sord, i + 1, Append(field_indices, m1.ret))

\* the loop of pack_struct over input.fields, iterated in the order ford,
\* from its i-th field: m.ret ends as the field_indices vector
PackFields(m, here, st, ford, sord, i, field_indices) ==
    IF i > Len(ford) THEN [m EXCEPT !.ok = TRUE, !.ret = field_indices]
    ELSE PackFieldsNext(pack_field(m, here, ford[i], st.fields[ford[i]], sord),
                        here, st, ford, sord, i, field_indices)

RECURSIVE AppendIndices(_, _)
\* the loop of pack_struct that writes field_indices
AppendIndices(p, field_indices) ==
    IF field_indices = <<>> THEN p
    ELSE AppendIndices(
           [p EXCEPT !.data.field_indices = @ \o LE(Head(field_indices), 4),
                     !.header.field_indices[2] = @ + 4],
           Tail(field_indices))

\* the locator of a struct of several fields counted in indices, not bytes
StructLocatorInIndices(p, n) ==
    IF n = 0 THEN LE(p.header.fields[2], 4) \o LE(0, 4)
    ELSE IF n = 1 THEN LE(p.header.fields[2], 4) \o LE(1, 4)
    ELSE LE(p.header.field_indices[2] \div 4, 4) \o LE(n, 4)

\* the locator of a struct of no field left at 0
StructLocatorNoField(p, n) ==
    IF n = 0 THEN LE(0, 4) \o LE(0, 4)
    ELSE IF n = 1 THEN LE(p.header.fields[2], 4) \o LE(1, 4)
    ELSE LE(p.header.field_indices[2], 4) \o LE(n, 4)

\* the locator and the count of a struct record
StructLocator(p, n) ==
    IF n = 0 THEN LE(p.header.fields[2], 4) \o LE(0, 4)
    ELSE IF n = 1 THEN LE(p.header.fields[2], 4) \o LE(1, 4)
    ELSE LE(p.header.field_indices[2], 4) \o LE(n, 4)

\* the end of pack_struct: the field indices go to field_indices
StructEnd(m1) ==
    IF ~m1.ok THEN m1
    ELSE IF Len(m1.ret) > 1
         THEN [m1 EXCEPT !.pk = AppendIndices(@, m1.ret), !.ret = 0]
         ELSE [m1 EXCEPT !.ret = 0]

\* the head of pack_struct: the struct record and the struct count
StructRecord(p, st, n) ==
    [p EXCEPT !.data.structs = @ \o LE(st.st_type, 4) \o StructLocator(p, n),
              !.header.structs[2] = @ + 1]

\* Packer::pack_struct, of the struct at path here of the tree root
pack_struct(m, root, here, ford, sord) ==
    StructEnd(PackFields([m EXCEPT !.pk = StructRecord(@, NodeAt(root, here), Len(ford))],
                         here, NodeAt(root, here), ford, sord, 1, <<>>))

\* Packer::finalize: [pk, ok], ok false when an assert_eq fails
finalize(p) ==
    LET o1 == 14 * 4
        o2 == o1 + Len(p.data.structs)
        o3 == o2 + Len(p.data.fields)
        o4 == o3 + Len(p.data.labels)
        o5 == o4 + Len(p.data.field_data)
        o6 == o5 + Len(p.data.field_indices)
    IN [pk |-> [p EXCEPT !.header.structs[1] = o1,
                         !.header.fields[1] = o2,
                         !.header.labels[1] = o3,
                         !.header.field_data[1] = o4,
                         !.header.field_indices[1] = o5,
                         !.header.list_indices[1] = o6],
        ok |-> /\ p.header.structs[2] * 12 = Len(p.data.structs)
               /\ p.header.fields[2] * 12 = Len(p.data.fields)
               /\ p.header.labels[2] * 16 = Len(p.data.labels)
               /\ p.header.field_data[2] = Len(p.data.field_data)
               /\ p.header.field_indices[2] = Len(p.data.field_indices)
               /\ p.header.list_indices[2] = Len(p.data.list_indices)]

\* the 56 bytes write gives the sink for the header
HeaderBytes(h) ==
    h.gff_type \o h.version
      \o LE(h.structs[1], 4) \o LE(h.structs[2], 4)
      \o LE(h.fields[1], 4) \o LE(h.fields[2], 4)
      \o LE(h.labels[1], 4) \o LE(h.labels[2], 4)
      \o LE(h.field_data[1], 4) \o LE(h.field_data[2], 4)
      \o LE(h.field_indices[1], 4) \o LE(h.field_indices[2], 4)
      \o LE(h.list_indices[1], 4) \o LE(h.list_indices[2], 4)

\* Packer::write: the bytes given to the BufWriter
write(p) ==
    [p EXCEPT !.writer =
        @ \o HeaderBytes(p.header) \o p.data.structs \o p.data.fields
          \o p.data.labels \o p.data.field_data \o p.data.field_indices
          \o p.data.list_indices]

(***************************************************************************)
(* The GffParser (parser.rs).  A parsing function gives [k, v, vis]: k is  *)
(* "ok" (v the value), "err" (an Err is returned) or "panic" (an assert!   *)
(* or an overflow check aborts the call); vis is visited_structs after the *)
(* call.  env is [build, fill]: the build of the crate, and the type tags  *)
(* the structs of the result carry (see parse_struct).                     *)
(***************************************************************************)
\* the sequence without its first n bytes
Drop(b, n) == SubSeq(b, n + 1, Len(b))

\* whether nom's take(n) succeeds on b, n a u32 or usize
CanTake(b, n) == n >= 0 /\ n <= Len(b)

Fail(kind, vis) == [k |-> kind, v |-> <<>>, vis |-> vis]

\* the abort of the call by a panic, v its message
Panic(msg, vis) == [k |-> "panic", v |-> msg, vis |-> vis]

\* the messages of the panics of the parser
PanicStruct == "assertion failed: st_idx < data.header.structs.1"
PanicField == "assertion failed: f_idx < data.header.fields.1"
PanicAlign == "assertion failed: offset % 4 == 0"
PanicIndices == "assertion failed: offset < data.header.field_indices.1"
PanicMul == "attempt to multiply with overflow"
PanicSub == "attempt to subtract with overflow"

Done(v, vis) == [k |-> "ok", v |-> v, vis |-> vis]

\* one (offset, count) pair of parse_header and the take of its block.
\* st is [k, input, data_offset, cnt, blk]; w the 8 bytes of the pair;
\* size the element size, 1 where the count is in bytes
HeaderBlock(st, w, size, build) ==
    IF st.k # "ok" THEN st
    ELSE
      LET offset == le_u32(SubSeq(w, 1, 4))
          count  == le_u32(SubSeq(w, 5, 8))
          m      == IF size = 1 THEN [v |-> count, ovf |-> FALSE]
                    ELSE Mul32(count, size)
      IN IF offset # st.data_offset THEN [st EXCEPT !.k = "err"]
         ELSE IF m.ovf /\ build = "debug" THEN [st EXCEPT !.k = "panic"]
         ELSE IF ~CanTake(st.input, m.v) THEN [st EXCEPT !.k = "err"]
         ELSE [st EXCEPT !.input = Drop(@, m.v),
                         !.data_offset = @ + m.v,
                         !.cnt = Append(@, <<offset, count>>),
                         !.blk = Append(@, SubSeq(st.input, 1, m.v))]

\* the Data of parse_header, s6 the state after the six pairs
HeaderData(data, s6) ==
    IF s6.k # "ok" THEN [k |-> s6.k, d |-> <<>>]
    ELSE IF s6.input # <<>> THEN [k |-> "err", d |-> <<>>]
    ELSE [k |-> "ok",
          d |-> [header |->
                   [gff_type      |-> SubSeq(data, 1, 4),
                    version       |-> SubSeq(data, 5, 8),
                    structs       |-> s6.cnt[1],
                    fields        |-> s6.cnt[2],
                    labels        |-> s6.cnt[3],
                    field_data    |-> s6.cnt[4],
                    field_indices |-> s6.cnt[5],
                    list_indices  |-> s6.cnt[6]],
                 structs       |-> s6.blk[1],
                 fields        |-> s6.blk[2],
                 labels        |-> s6.blk[3],
                 field_data    |-> s6.blk[4],
                 field_indices |-> s6.blk[5],
                 list_indices  |-> s6.blk[6]]]

\* the 8 bytes of the i-th (offset, count) pair of the header
HeaderPair(data, i) == SubSeq(data, 8 * i + 1, 8 * i + 8)

\* GffParser::parse_header: [k, d], d the Data
parse_header(data, build) ==
    IF ~CanTake(data, 56) THEN [k |-> "err", d |-> <<>>]
    ELSE HeaderData(data,
           HeaderBlock(
             HeaderBlock(
               HeaderBlock(
                 HeaderBlock(
                   HeaderBlock(
                     HeaderBlock([k |-> "ok", input |-> Drop(data, 56),
                                  data_offset |-> 14 * 4,
                                  cnt |-> <<>>, blk |-> <<>>],
                                 HeaderPair(data, 1), 12, build),
                     HeaderPair(data, 2), 12, build),
                   HeaderPair(data, 3), 16, build),
                 HeaderPair(data, 4), 1, build),
               HeaderPair(data, 5), 1, build),
             HeaderPair(data, 6), 1, build))

\* take_till(|c| c == 0x00) on a label slot
TakeTillNul(b) ==
    IF \E i \in 1..Len(b) : b[i] = 0
    THEN SubSeq(b, 1, (CHOOSE i \in 1..Len(b) :
                         b[i] = 0 /\ \A j \in 1..(i - 1) : b[j] # 0) - 1)
    ELSE b

\* the map_res of parse_label on the Result r of String::from_utf8
LabelOf(r, vis) == IF r.ok THEN Done(r.s, vis) ELSE Fail("err", vis)

\* GffParser::parse_label
parse_label(d, lbl_idx, vis) ==
    IF lbl_idx < 0 \/ lbl_idx > Len(d.labels) \div 16 THEN Fail("err", vis)
    ELSE IF ~CanTake(Drop(d.labels, lbl_idx * 16), 16) THEN Fail("err", vis)
    ELSE LabelOf(from_utf8(TakeTillNul(SubSeq(d.labels, lbl_idx * 16 + 1,
                                               lbl_idx * 16 + 16))), vis)

\* parse_dword64, parse_int64 and parse_double, which differ in the variant
Parse8(d, offset, variant, vis) ==
    IF ~CanTake(d.field_data, offset) THEN Fail("err", vis)
    ELSE IF ~CanTake(Drop(d.field_data, offset), 8) THEN Fail("err", vis)
    ELSE Done([t |-> variant, v |-> le_u64(Drop(d.field_data, offset))], vis)

\* GffParser::parse_dword64
parse_dword64(d, offset, vis) == Parse8(d, offset, "DWord64", vis)

\* GffParser::parse_int64
parse_int64(d, offset, vis) == Parse8(d, offset, "Int64", vis)

\* GffParser::parse_double
parse_double(d, offset, vis) == Parse8(d, offset, "Double", vis)

\* the u32 length and the bytes it counts at offset of field_data:
\* [ok, bytes], as parse_cexostring and parse_void read them
LenPrefixed(d, offset) ==
    IF ~CanTake(d.field_data, offset) THEN [ok |-> FALSE, bytes |-> <<>>]
    ELSE LET input == Drop(d.field_data, offset)
         IN IF ~CanTake(input, 4) THEN [ok |-> FALSE, bytes |-> <<>>]
            ELSE IF ~CanTake(Drop(input, 4), le_u32(input))
            THEN [ok |-> FALSE, bytes |-> <<>>]
            ELSE [ok |-> TRUE, bytes |-> SubSeq(input, 5, 4 + le_u32(input))]

\* the Ok of parse_cexostring on the bytes r of the string
StringOf(r, vis) ==
    IF r.ok THEN Done(CExoString(decode(r.bytes)), vis) ELSE Fail("err", vis)

\* GffParser::parse_cexostring
parse_cexostring(d, offset, vis) == StringOf(LenPrefixed(d, offset), vis)

\* the Ok of parse_void on the bytes r
VoidOf(r, vis) == IF r.ok THEN Done(Void(r.bytes), vis) ELSE Fail("err", vis)

\* GffParser::parse_void
parse_void(d, offset, vis) == VoidOf(LenPrefixed(d, offset), vis)

\* GffParser::parse_cresref: each byte becomes the char of its value
parse_cresref(d, offset, vis) ==
    IF ~CanTake(d.field_data, offset) THEN Fail("err", vis)
    ELSE LET input == Drop(d.field_data, offset)
         IN IF ~CanTake(input, 1) THEN Fail("err", vis)
            ELSE IF ~CanTake(Drop(input, 1), le_u8(input)) THEN Fail("err", vis)
            ELSE Done(CResRef(SubSeq(input, 2, 1 + le_u8(input))), vis)

\* parse_substring: [ok, key, s, rest]
parse_substring(data) ==
    LET bad == [ok |-> FALSE, key |-> <<>>, s |-> <<>>, rest |-> <<>>]
    IN IF ~CanTake(data, 4) THEN bad
       ELSE LET val    == le_u32(data)
                gender == val % 2
                \* val / 2 on u32: at least 2^30 when val is 2^31 or more
                lang   == IF val >= 0 THEN val \div 2 ELSE -1
            IN IF lang \notin GffLang THEN bad
               ELSE IF encodings(<<lang>>) = "Err" THEN bad
               ELSE IF ~CanTake(Drop(data, 4), 4) THEN bad
               ELSE IF ~CanTake(Drop(data, 8), le_u32(Drop(data, 4))) THEN bad
               ELSE [ok   |-> TRUE,
                     key  |-> <<lang, gender>>,
                     s    |-> decode(SubSeq(data, 9, 8 + le_u32(Drop(data, 4)))),
                     rest |-> Drop(data, 8 + le_u32(Drop(data, 4)))]

RECURSIVE ParseSubstrings(_, _, _)
\* the insert into locs of the substring r, and the rest of the count
SubstringsNext(r, n, locs) ==
    IF ~r.ok THEN [ok |-> FALSE, locs |-> <<>>]
    ELSE ParseSubstrings(
           r.rest,
           IF n < 0 THEN n ELSE n - 1,
           [key \in (DOMAIN locs) \cup {r.key} |->
               IF key = r.key THEN r.s ELSE locs[key]])

\* count(parse_substring, n) and the inserts into locs: [ok, locs].
\* A negative n stands for a count of 2^31 or more.
ParseSubstrings(data, n, locs) ==
    IF n = 0 THEN [ok |-> TRUE, locs |-> locs]
    ELSE SubstringsNext(parse_substring(data), n, locs)

\* the Ok of parse_cexosloctring on the substrings r
LocStringOf(r, tlk_ref, vis) ==
    IF r.ok THEN Done(CExoLocString(tlk_ref, r.locs), vis) ELSE Fail("err", vis)

\* GffParser::parse_cexosloctring
parse_cexosloctring(d, offset, vis, build) ==
    IF ~CanTake(d.field_data, offset) THEN Fail("err", vis)
    ELSE
      LET input == Drop(d.field_data, offset)
      IN IF ~CanTake(input, 12) THEN Fail("err", vis)
         ELSE
           LET len       == le_u32(input)
               tlk_ref   == le_u32(Drop(input, 4))
               str_count == le_u32(Drop(input, 8))
               rest      == Drop(input, 12)
           IN \* len as usize - 8 overflows below 8
              IF len >= 0 /\ len < 8
              THEN (IF build = "debug" THEN Panic(PanicSub, vis) ELSE Fail("err", vis))
              ELSE IF len < 0 \/ ~CanTake(rest, len - 8) THEN Fail("err", vis)
              ELSE LocStringOf(
                     ParseSubstrings(SubSeq(rest, 1, len - 8), str_count, <<>>),
                     tlk_ref, vis)

RECURSIVE MapOf(_)
\* the insert of the pair e into the HashMap f
MapInsert(f, e) ==
    [l \in (DOMAIN f) \cup {e[1]} |-> IF l = e[1] THEN e[2] ELSE f[l]]

\* collect() of (label, value) pairs into a HashMap: a later pair replaces
\* an earlier one of the same label
MapOf(pairs) ==
    IF pairs = <<>> THEN <<>>
    ELSE MapInsert(MapOf(SubSeq(pairs, 1, Len(pairs) - 1)), pairs[Len(pairs)])

RECURSIVE parse_struct(_, _, _, _)
RECURSIVE parse_field(_, _, _, _)
RECURSIVE parse_list(_, _, _, _)
RECURSIVE ParseListEntries(_, _, _, _, _, _)
RECURSIVE parse_field_indices(_, _, _, _, _)
RECURSIVE ParseIndexed(_, _, _, _, _, _)

\* the GffStruct { fields } of parse_struct, on the Result r of its fields.
\* The struct literal names no st_type: the tag read from the record goes
\* to _st_type and no further, so the tag of the result is not the source's
\* to decide, and is the one given here.
StructOf(r, tag) ==
    IF r.k # "ok" THEN r ELSE Done(GffStruct(tag, r.v), r.vis)

\* vec![field].into_iter().collect() of parse_struct
OneField(r) == IF r.k # "ok" THEN r ELSE Done(MapOf(<<r.v>>), r.vis)

\* GffParser::parse_struct; the tag of the result is env.fill[st_idx]
parse_struct(d, st_idx, vis, env) ==
    IF ~ULt(st_idx, d.header.structs[2]) THEN Panic(PanicStruct, vis)
    ELSE IF st_idx < 0 \/ st_idx > Len(d.structs) \div 12 THEN Fail("err", vis)
    ELSE IF ~CanTake(Drop(d.structs, 12 * st_idx), 12) THEN Fail("err", vis)
    ELSE
      LET input        == Drop(d.structs, 12 * st_idx)
          field_offset == le_u32(Drop(input, 4))
          field_count  == le_u32(Drop(input, 8))
      IN IF field_count = 0
         THEN Done(GffStruct(env.fill[st_idx], <<>>), vis)
         ELSE IF field_count = 1
         THEN StructOf(OneField(parse_field(d, field_offset, vis, env)),
                       env.fill[st_idx])
         ELSE StructOf(parse_field_indices(d, field_offset, field_count, vis, env),
                       env.fill[st_idx])

\* an inline value of n bytes of a field record
Inline(input, n, val, vis) ==
    IF CanTake(input, n) THEN Done(val, vis) ELSE Fail("err", vis)

\* GffFieldValue::Struct(val) of parse_field
AsStruct(r) == IF r.k # "ok" THEN r ELSE Done(Struct(r.v), r.vis)

\* GffFieldValue::List(val) of parse_field
AsList(r) == IF r.k # "ok" THEN r ELSE Done(List(r.v), r.vis)

\* the match of parse_field on gff_type, input the last 4 bytes of the record
FieldValue(d, gff_type, input, vis, env) ==
    CASE gff_type = 0 -> Inline(input, 1, Byte(le_u8(input)), vis)
      [] gff_type = 1 -> Inline(input, 1, Char(le_i8(input)), vis)
      [] gff_type = 2 -> Inline(input, 2, Word(le_u16(input)), vis)
      [] gff_type = 3 -> Inline(input, 2, Short(le_i16(input)), vis)
      [] gff_type = 4 -> Inline(input, 4, DWord(le_u32(input)), vis)
      [] gff_type = 5 -> Inline(input, 4, GffInt(le_u32(input)), vis)
      [] gff_type = 8 -> Inline(input, 4, Float(le_u32(input)), vis)
      [] gff_type \in {6, 7, 9, 10, 11, 12, 13, 14, 15} ->
          (IF ~CanTake(input, 4) THEN Fail("err", vis)
           ELSE CASE gff_type = 6  -> parse_dword64(d, le_u32(input), vis)
                  [] gff_type = 7  -> parse_int64(d, le_u32(input), vis)
                  [] gff_type = 9  -> parse_double(d, le_u32(input), vis)
                  [] gff_type = 10 -> parse_cexostring(d, le_u32(input), vis)
                  [] gff_type = 11 -> parse_cresref(d, le_u32(input), vis)
                  [] gff_type = 12 ->
                       parse_cexosloctring(d, le_u32(input), vis, env.build)
                  [] gff_type = 13 -> parse_void(d, le_u32(input), vis)
                  [] gff_type = 14 ->
                       IF le_u32(input) \in vis THEN Fail("err", vis)
                       ELSE AsStruct(parse_struct(d, le_u32(input),
                                                  vis \cup {le_u32(input)}, env))
                  [] gff_type = 15 ->
                       AsList(parse_list(d, le_u32(input), vis, env)))
      [] OTHER -> Done(Invalid, vis)

\* the (label, value) of parse_field, on the Result label of parse_label
Labelled(label, value) ==
    IF label.k # "ok" THEN label
    ELSE Done(<<label.v, value.v>>, value.vis)

\* the end of parse_field: the label is parsed once the value is
WithLabel(d, lbl_idx, value) ==
    IF value.k # "ok" THEN value
    ELSE Labelled(parse_label(d, lbl_idx, value.vis), value)

\* GffParser::parse_field: v is <<label, value>>
parse_field(d, f_idx, vis, env) ==
    IF ~ULt(f_idx, d.header.fields[2]) THEN Panic(PanicField, vis)
    ELSE IF Mul32(f_idx, 12).ovf /\ env.build = "debug" THEN Panic(PanicMul, vis)
    ELSE IF ~CanTake(d.fields, Mul32(f_idx, 12).v) THEN Fail("err", vis)
    ELSE IF ~CanTake(Drop(d.fields, Mul32(f_idx, 12).v), 8) THEN Fail("err", vis)
    ELSE WithLabel(d, le_u32(Drop(d.fields, Mul32(f_idx, 12).v + 4)),
                   FieldValue(d, le_u32(Drop(d.fields, Mul32(f_idx, 12).v)),
                              Drop(d.fields, Mul32(f_idx, 12).v + 8), vis, env))

\* the push of the struct r of a list, and the rest of the count
ListNext(r, d, input, n, acc, env) ==
    IF r.k # "ok" THEN r
    ELSE ParseListEntries(d, Drop(input, 4), IF n < 0 THEN n ELSE n - 1,
                          r.vis, Append(acc, r.v), env)

\* the count(...) of parse_list over n entries of input.
\* A negative n stands for a count of 2^31 or more.
ParseListEntries(d, input, n, vis, acc, env) ==
    IF n = 0 THEN Done(acc, vis)
    ELSE IF ~CanTake(input, 4) THEN Fail("err", vis)
    ELSE IF le_u32(input) \in vis THEN Fail("err", vis)
    ELSE ListNext(parse_struct(d, le_u32(input), vis \cup {le_u32(input)}, env),
                  d, input, n, acc, env)

\* GffParser::parse_list
parse_list(d, offset, vis, env) ==
    IF offset % 4 # 0 THEN Panic(PanicAlign, vis)
    ELSE IF ~CanTake(d.list_indices, offset) THEN Fail("err", vis)
    ELSE IF ~CanTake(Drop(d.list_indices, offset), 4) THEN Fail("err", vis)
    ELSE ParseListEntries(d, Drop(d.list_indices, offset + 4),
                          le_u32(Drop(d.list_indices, offset)), vis, <<>>, env)

\* the push of the field r of a struct, and the rest of the count
IndexedNext(r, d, input, n, acc, env) ==
    IF r.k # "ok" THEN r
    ELSE ParseIndexed(d, Drop(input, 4), IF n < 0 THEN n ELSE n - 1,
                      r.vis, Append(acc, r.v), env)

\* the count(...) of parse_field_indices over n indices of input
ParseIndexed(d, input, n, vis, acc, env) ==
    IF n = 0 THEN Done(MapOf(acc), vis)
    ELSE IF ~CanTake(input, 4) THEN Fail("err", vis)
    ELSE IndexedNext(parse_field(d, le_u32(input), vis, env),
                     d, input, n, acc, env)

\* GffParser::parse_field_indices
parse_field_indices(d, offset, f_count, vis, env) ==
    IF offset % 4 # 0 THEN Panic(PanicAlign, vis)
    ELSE IF ~ULt(offset, d.header.field_indices[2]) THEN Panic(PanicIndices, vis)
    ELSE IF ~CanTake(d.field_indices, offset) THEN Fail("err", vis)
    ELSE ParseIndexed(d, Drop(d.field_indices, offset), f_count, vis, <<>>, env)

\* the Result of parse, r the Result of parse_struct on the root
ParseResult(r) == [k |-> r.k, v |-> r.v, vis |-> r.vis]

\* the rest of parse once parse_header has given h
ParseData(h, env) ==
    IF h.k = "panic" THEN Panic(PanicMul, {})
    ELSE IF h.k # "ok" THEN Fail(h.k, {})
    ELSE ParseResult(parse_struct(h.d, 0, {}, env))

\* GffParser::parse: [k, v, vis], v the root GffStruct or the message of a
\* panic, vis the visited_structs the parser ends with
parse(data, env) == ParseData(parse_header(data, env.build), env)

(***************************************************************************)
(* The trees that are packed.                                              *)
(***************************************************************************)
La == <<97>>
Lb == <<98>>
Lc == <<99>>
\* a label of 16 bytes, and one of 17
L16 == [i \in 1..16 |-> 108]
L17 == [i \in 1..17 |-> 108]

\* the type tags of the samples: 0xFFFFFFFF, 0x55555555 and 0xAAAAAAAA
TagRoot == -1
Tag5 == 1431655765
TagA == -1431655766

\* the tags a parsed struct may come to carry
StTypes == {TagRoot, Tag5}

Male == 0
Female == 1

SampleTrees ==
    << \* 1: one inline field
       GffStruct(TagRoot, La :> Byte(1)),
       \* 2: a resource reference and a string
       GffStruct(TagRoot, (La :> CResRef(<<97, 98>>)) @@ (Lb :> CExoString(<<116>>))),
       \* 3: a sub-struct whose field shares the label of its parent's
       GffStruct(TagRoot, La :> Struct(GffStruct(Tag5, La :> Byte(2)))),
       \* 4: a list of an empty struct and a struct of one field
       GffStruct(TagRoot,
                 La :> List(<<GffStruct(Tag5, <<>>),
                              GffStruct(TagA, Lb :> Word(3))>>)),
       \* 5: a localized string of two substrings
       GffStruct(TagRoot,
                 La :> CExoLocString(4660, (<<0, Male>> :> <<72>>)
                                           @@ (<<1, Female>> :> <<83>>))),
       \* 6: no field
       GffStruct(TagRoot, <<>>),
       \* 7: three signed fields
       GffStruct(TagRoot, (La :> Char(-2)) @@ (Lb :> Short(-4))
                            @@ (Lc :> GffInt(-6))),
       \* 8: the three 8 byte fields
       GffStruct(TagRoot, (La :> DWord64(<<1, 0>>)) @@ (Lb :> Int64(<<-2, -1>>))
                            @@ (Lc :> Double(<<1717986918, 1074423398>>))),
       \* 9: the unsigned fields and a float
       GffStruct(Tag5, (La :> Word(65535)) @@ (Lb :> DWord(-2))
                         @@ (Lc :> Float(1089889894))),
       \* 10: struct A holding struct A1, and struct B
       GffStruct(TagRoot,
                 (La :> Struct(GffStruct(Tag5, La :> Struct(GffStruct(TagA, <<>>)))))
                   @@ (Lb :> Struct(GffStruct(TagA, Lc :> Byte(7))))),
       \* 11: raw bytes and a string with a character above ASCII
       GffStruct(TagRoot, (La :> Void(<<1, 2>>)) @@ (Lb :> CExoString(<<233, 116>>))),
       \* 12: lists and structs two deep
       GffStruct(TagRoot,
                 (La :> List(<<GffStruct(Tag5, La :> Struct(GffStruct(TagA, <<>>))),
                               GffStruct(TagA, <<>>)>>))
                   @@ (Lb :> Struct(GffStruct(Tag5, Lb :> List(<<>>))))),
       \* 13: a label and a resource reference of 16 bytes
       GffStruct(TagRoot, L16 :> CResRef([i \in 1..16 |-> 114])),
       \* 14: a resource reference in upper case
       GffStruct(TagRoot, La :> CResRef(<<84, 101>>)),
       \* 15: a value that cannot be packed, after one that can
       GffStruct(TagRoot, (La :> Byte(1)) @@ (Lb :> Invalid)),
       \* 16: a label of 17 bytes in a sub-struct
       GffStruct(TagRoot, La :> Struct(GffStruct(Tag5, L17 :> Byte(1)))),
       \* 17: a list of three structs beside a string
       GffStruct(Tag5,
                 (La :> List(<<GffStruct(TagA, <<>>), GffStruct(TagA, La :> Byte(1)),
                               GffStruct(Tag5, <<>>)>>))
                   @@ (Lb :> CExoString(<<>>))),
       \* 18: a resource reference of 17 bytes
       GffStruct(TagRoot, La :> CResRef([i \in 1..17 |-> 114])),
       \* 19: a resource reference of 17 bytes beside a label of 17 bytes
       GffStruct(TagRoot, (La :> CResRef([i \in 1..17 |-> 82]))
                            @@ (L17 :> Byte(1))),
       \* 20: two structs of two fields, and a struct of one field after them
       GffStruct(TagRoot,
                 (La :> Struct(GffStruct(Tag5, (La :> Byte(1)) @@ (Lb :> Double(<<0, 1>>)))))
                   @@ (Lb :> Struct(GffStruct(TagA, Lc :> CExoString(<<116>>))))),
       \* 21: a localized string of three substrings of unlike lengths, one
       \* of them empty, beside a string
       GffStruct(TagRoot,
                 (La :> CExoString(<<116>>))
                   @@ (Lb :> CExoLocString(7, (<<0, Male>> :> <<>>)
                                              @@ (<<2, Female>> :> <<72, 233>>)
                                              @@ (<<131, Male>> :> <<97, 98, 99>>)))) >>

\* the values a damaged byte takes
MutBytes == {0, 1, 16, 64, 65}

(***************************************************************************)
(* The state machine.  A tree is packed one pass of the loop of pack at a  *)
(* time; the buffer written is parsed; the tree parsed is packed again by  *)
(* a fresh Packer and parsed again.  Under SpecWild the first buffer may   *)
(* be damaged before it is parsed.                                         *)
(***************************************************************************)
\* the orders in which a set may be iterated
Orders(S) ==
    {s \in [1..Cardinality(S) -> S] :
        \A i, j \in 1..Cardinality(S) : i # j => s[i] # s[j]}

\* the keys of the localized strings of a struct
LocKeys(st) ==
    UNION {DOMAIN st.fields[l].v.strs :
             l \in {x \in DOMAIN st.fields : st.fields[x].t = "CExoLocString"}}

NoParse == [k |-> "none", v |-> <<>>, vis |-> {}]

NoPrev == [tree |-> <<>>, buf |-> <<>>, parsed |-> NoParse]

\* no GffFieldValue is being converted
NoValue == [t |-> "none", v |-> 0]

\* no conversion has been made
NoUnpack == [to |-> "none", ok |-> FALSE, v |-> <<>>]

InitOf(n) ==
    /\ \E k \in 1..Min(n, Len(SampleTrees)) : tree = SampleTrees[k]
    /\ structs = << <<>> >>
    /\ current_st_idx = 0
    /\ packer = PackerNew
    /\ packed = <<>>
    /\ pc = "pack"
    /\ err = ""
    /\ buf = <<>>
    /\ wild = FALSE
    /\ parsed = NoParse
    /\ round = 1
    /\ prev = NoPrev
    /\ gff_value = NoValue
    /\ unpacked = NoUnpack

Init == InitOf(MaxTree)

\* a buffer no Packer wrote: struct 0 holds one List field "a" whose entries
\* are 1, 7, 1, and there are two struct records
ForgedList ==
    <<71, 70, 70, 32, 86, 51, 46, 50>>
      \o LE(56, 4) \o LE(2, 4) \o LE(80, 4) \o LE(1, 4)
      \o LE(92, 4) \o LE(1, 4) \o LE(108, 4) \o LE(0, 4)
      \o LE(108, 4) \o LE(0, 4) \o LE(108, 4) \o LE(16, 4)
      \o LE(-1, 4) \o LE(0, 4) \o LE(1, 4)
      \o LE(5, 4) \o LE(0, 4) \o LE(0, 4)
      \o LE(15, 4) \o LE(0, 4) \o LE(0, 4)
      \o LabelSlot(La)
      \o LE(3, 4) \o LE(1, 4) \o LE(7, 4) \o LE(1, 4)

\* a buffer no Packer wrote: one struct record without fields, a
\* field_indices block of 2 bytes and a list_indices block of 1 byte
ForgedOdd ==
    <<71, 70, 70, 32, 86, 51, 46, 50>>
      \o LE(56, 4) \o LE(1, 4) \o LE(68, 4) \o LE(0, 4)
      \o LE(68, 4) \o LE(0, 4) \o LE(68, 4) \o LE(0, 4)
      \o LE(68, 4) \o LE(2, 4) \o LE(70, 4) \o LE(1, 4)
      \o LE(-1, 4) \o LE(0, 4) \o LE(0, 4)
      \o <<0, 0>> \o <<0>>

\* the buffers given to GffParser::parse that no Packer wrote
WildSamples == <<ForgedList, ForgedOdd>>

\* parse is given a buffer from the wild
InitForged ==
    /\ tree = GffStruct(TagRoot, <<>>)
    /\ structs = <<>>
    /\ current_st_idx = 0
    /\ packer = PackerNew
    /\ packed = <<>>
    /\ pc = "written"
    /\ err = ""
    /\ \E k \in 1..Len(WildSamples) : buf = WildSamples[k]
    /\ wild = TRUE
    /\ parsed = NoParse
    /\ round = 1
    /\ prev = NoPrev
    /\ gff_value = NoValue
    /\ unpacked = NoUnpack

InitWild == InitOf(MaxWildTree) \/ InitForged

\* the keys a substring may have: a GffLang and a GffGender
SubKeys == GffLang \X {Male, Female}

\* the trees of one localized string, of one or two substrings, of any keys
KeyTrees ==
    {GffStruct(TagRoot, La :> CExoLocString(4660, (k1 :> <<72>>) @@ (k2 :> <<83>>))) :
       k1 \in SubKeys, k2 \in SubKeys}

\* pack is given a tree of one localized string
InitKeys ==
    /\ tree \in KeyTrees
    /\ structs = << <<>> >>
    /\ current_st_idx = 0
    /\ packer = PackerNew
    /\ packed = <<>>
    /\ pc = "pack"
    /\ err = ""
    /\ buf = <<>>
    /\ wild = FALSE
    /\ parsed = NoParse
    /\ round = 1
    /\ prev = NoPrev
    /\ gff_value = NoValue
    /\ unpacked = NoUnpack

\* Vec::pop in the place of Vec::remove: the queue taken from its end
remove_last(q, index) ==
    [elem |-> q[Len(q) - index],
     rest |-> SubSeq(q, 1, Len(q) - index - 1)]

\* Vec::remove(index): the element taken and the vector left
remove(q, index) ==
    [elem |-> q[index + 1],
     rest |-> SubSeq(q, 1, index) \o SubSeq(q, index + 2, Len(q))]

\* Packer::pack: the struct the pass of the loop writes
struct_to_write(q) == remove(q, 0).elem

\* a pass of the loop that hands the blocks to the writer as it goes
PackEffectStreaming(m1, here) ==
    /\ packer' = write(m1.pk)
    /\ structs' = m1.structs
    /\ current_st_idx' = m1.cur
    /\ packed' = Append(packed, here)
    /\ pc' = IF m1.ok THEN "pack" ELSE "failed"
    /\ err' = IF m1.ok THEN err ELSE m1.ret

\* the state after the pass of the loop whose pack_struct gives m1
PackEffect(m1, here) ==
    /\ packer' = m1.pk
    /\ structs' = m1.structs
    /\ current_st_idx' = m1.cur
    /\ packed' = Append(packed, here)
    /\ pc' = IF m1.ok THEN "pack" ELSE "failed"
    /\ err' = IF m1.ok THEN err ELSE m1.ret

\* Packer::pack: one pass of the loop, with pack_struct
PackLoop ==
    /\ pc = "pack"
    /\ structs # <<>>
    /\ \E ford \in Orders(DOMAIN NodeAt(tree, struct_to_write(structs)).fields),
          sord \in Orders(LocKeys(NodeAt(tree, struct_to_write(structs)))) :
         PackEffect(pack_struct([pk |-> packer,
                                 structs |-> remove(structs, 0).rest,
                                 cur |-> current_st_idx,
                                 ok |-> TRUE, ret |-> 0],
                                tree, struct_to_write(structs), ford, sord),
                    struct_to_write(structs))
    /\ UNCHANGED <<tree, buf, wild, parsed, round, prev, gff_value, unpacked>>

\* the sinks a Packer is given: one that takes what it is offered, one that
\* takes a part of it at each call, one that reports an I/O error
Sinks == {"whole", "short", "failing"}

\* the state after finalize has given f: write, unless an assert_eq failed.
\* writer is a BufWriter and the bytes of a tree are fewer than its
\* capacity, so that every self.writer.write(..) of write keeps its bytes
\* in the BufWriter and gives Ok, and pack returns Ok(()), whatever the
\* sink.  The sink is given the bytes by the into_inner() that follows: buf
\* is what it holds then.  Over a failing sink into_inner() gives the
\* error, and pc is "lost": pack has returned Ok(()) and the sink holds
\* nothing.
FinishEffect(f, sink) ==
    IF f.ok
    THEN /\ packer' = write(f.pk)
         /\ buf' = IF sink = "failing" THEN buf ELSE packer'.writer
         /\ pc' = IF sink = "failing" THEN "lost" ELSE "written"
    ELSE /\ packer' = f.pk
         /\ buf' = buf
         /\ pc' = "panic"

\* Packer::pack: the end of the loop, finalize and write
Finish ==
    /\ pc = "pack"
    /\ structs = <<>>
    /\ \E sink \in Sinks : FinishEffect(finalize(packer), sink)
    /\ UNCHANGED <<tree, structs, current_st_idx, packed, err, wild, parsed,
                   round, prev, gff_value, unpacked>>

\* a byte of the buffer takes another value
Damage ==
    /\ pc = "written" /\ round = 1 /\ ~wild
    /\ \E i \in 1..Len(buf), b \in MutBytes :
         /\ buf[i] # b
         /\ buf' = [buf EXCEPT ![i] = b]
    /\ wild' = TRUE
    /\ UNCHANGED <<tree, structs, current_st_idx, packer, packed, pc, err,
                   parsed, round, prev, gff_value, unpacked>>

\* the buffer loses its last bytes, or all but a part of its header
Truncate ==
    /\ pc = "written" /\ round = 1 /\ ~wild
    /\ \E n \in 1..MaxResize :
         \/ buf' = SubSeq(buf, 1, Len(buf) - n)
         \/ buf' = SubSeq(buf, 1, 14 * 4 - n)
    /\ wild' = TRUE
    /\ UNCHANGED <<tree, structs, current_st_idx, packer, packed, pc, err,
                   parsed, round, prev, gff_value, unpacked>>

\* bytes follow the buffer
Extend ==
    /\ pc = "written" /\ round = 1 /\ ~wild
    /\ \E n \in 1..MaxResize : buf' = buf \o [i \in 1..n |-> 0]
    /\ wild' = TRUE
    /\ UNCHANGED <<tree, structs, current_st_idx, packer, packed, pc, err,
                   parsed, round, prev, gff_value, unpacked>>

\* how many struct records the buffer holds
RecordsOf(h) == IF h.k = "ok" THEN Len(h.d.structs) \div 12 ELSE 0

RecordCount(data) == RecordsOf(parse_header(data, "release"))

\* GffParser::parse of the buffer
Parse ==
    /\ pc = "written"
    /\ \E build \in Builds, fill \in [0..(RecordCount(buf) - 1) -> StTypes] :
         parsed' = parse(buf, [build |-> build, fill |-> fill])
    /\ pc' = "parsed"
    /\ UNCHANGED <<tree, structs, current_st_idx, packer, packed, err, buf,
                   wild, round, prev, gff_value, unpacked>>

\* the tree parsed is given to a fresh Packer, once: the pack(parse(B)) of
\* the round-trip laws
Repack ==
    /\ pc = "parsed"
    /\ parsed.k = "ok"
    /\ round = 1
    /\ prev' = [tree |-> tree, buf |-> buf, parsed |-> parsed]
    /\ tree' = parsed.v
    /\ structs' = << <<>> >>
    /\ current_st_idx' = 0
    /\ packer' = PackerNew
    /\ packed' = <<>>
    /\ pc' = "pack"
    /\ buf' = <<>>
    /\ parsed' = NoParse
    /\ round' = round + 1
    /\ UNCHANGED <<err, wild, gff_value, unpacked>>

Next == PackLoop \/ Finish \/ Parse \/ Repack

NextWild == Next \/ Damage \/ Truncate \/ Extend

Spec == Init /\ [][Next]_vars

SpecKeys == InitKeys /\ [][Next]_vars

SpecWild == InitWild /\ [][NextWild]_vars

(***************************************************************************)
(* Equality of trees (common.rs), and what is read back from the blocks    *)
(* the Packer has written.                                                 *)
(***************************************************************************)
\* a u32 bit pattern without its sign bit
Magnitude(b) == IF b < 0 THEN (b + 2147483647) + 1 ELSE b

\* f32::eq on bit patterns: a NaN equals nothing, the zeros equal each other
F32Eq(a, b) ==
    /\ Magnitude(a) <= 2139095040
    /\ Magnitude(b) <= 2139095040
    /\ (a = b \/ (Magnitude(a) = 0 /\ Magnitude(b) = 0))

\* whether the f64 of bit pattern <<lo, hi>> is a NaN
F64IsNaN(x) ==
    \/ Magnitude(x[2]) > 2146435072
    \/ (Magnitude(x[2]) = 2146435072 /\ x[1] # 0)

\* f64::eq on bit patterns
F64Eq(a, b) ==
    /\ ~F64IsNaN(a)
    /\ ~F64IsNaN(b)
    /\ \/ a = b
       \/ (Magnitude(a[2]) = 0 /\ a[1] = 0 /\ Magnitude(b[2]) = 0 /\ b[1] = 0)

RECURSIVE EqStruct(_, _, _)
RECURSIVE EqValue(_, _, _)
\* PartialEq of GffFieldValue.  tags says whether the st_type of the structs
\* below is compared, as the derive does; without it the trees are compared
\* but for their type tags.
EqValue(a, b, tags) ==
    /\ a.t = b.t
    /\ CASE a.t = "Float"  -> F32Eq(a.v, b.v)
         [] a.t = "Double" -> F64Eq(a.v, b.v)
         [] a.t = "Struct" -> EqStruct(a.v, b.v, tags)
         [] a.t = "List"   ->
              /\ Len(a.v) = Len(b.v)
              /\ \A i \in 1..Len(a.v) : EqStruct(a.v[i], b.v[i], tags)
         [] a.t = "CExoLocString" ->
              /\ a.v.str_ref = b.v.str_ref
              /\ DOMAIN a.v.strs = DOMAIN b.v.strs
              /\ \A key \in DOMAIN a.v.strs : a.v.strs[key] = b.v.strs[key]
         [] a.t = "Invalid" -> TRUE
         [] OTHER -> a.v = b.v

\* PartialEq of GffStruct
EqStruct(a, b, tags) ==
    /\ tags => a.st_type = b.st_type
    /\ DOMAIN a.fields = DOMAIN b.fields
    /\ \A l \in DOMAIN a.fields : EqValue(a.fields[l], b.fields[l], tags)

\* whether a string is pure ASCII
IsAscii(s) == \A i \in 1..Len(s) : s[i] < 128

RECURSIVE WellFormed(_)
\* the invariants of the data model on a tree: labels ASCII of at most 16
\* bytes, resource references lowercase ASCII of at most 16 bytes, strings
\* their code page can represent, and no Invalid value
WellFormed(st) ==
    \A l \in DOMAIN st.fields :
      LET val == st.fields[l] IN
        /\ IsAscii(l)
        /\ Len(l) <= 16
        /\ CASE val.t = "CResRef" ->
                  IsAscii(val.v) /\ to_lowercase(val.v) = val.v /\ Len(val.v) <= 16
             [] val.t = "CExoString" -> decode(encode(val.v)) = val.v
             [] val.t = "CExoLocString" ->
                  \A key \in DOMAIN val.v.strs :
                    decode(encode(val.v.strs[key])) = val.v.strs[key]
             [] val.t = "Struct" -> WellFormed(val.v)
             [] val.t = "List" -> \A i \in 1..Len(val.v) : WellFormed(val.v[i])
             [] val.t = "Invalid" -> FALSE
             [] OTHER -> TRUE

RECURSIVE SumNodes(_, _)
RECURSIVE CountNodes(_)
\* the struct nodes below the fields ls of st
SumNodes(st, ls) ==
    IF ls = {} THEN 0
    ELSE LET l   == CHOOSE x \in ls : TRUE
             val == st.fields[l]
         IN (CASE val.t = "Struct" -> CountNodes(val.v)
               [] val.t = "List" ->
                    SumNodes([st_type |-> 0,
                              fields |-> [i \in 1..Len(val.v) |-> Struct(val.v[i])]],
                             1..Len(val.v))
               [] OTHER -> 0)
            + SumNodes(st, ls \ {l})

\* the struct nodes of a tree: the root, one per Struct field and one per
\* List element, at every depth
CountNodes(st) == 1 + SumNodes(st, DOMAIN st.fields)

RECURSIVE Flatten(_)
\* the concatenation of a sequence of sequences
Flatten(ss) == IF ss = <<>> THEN <<>> ELSE Head(ss) \o Flatten(Tail(ss))

\* the u32 at a byte offset of a block
U32At(block, off) == le_u32(Drop(block, off))

\* the indices of the field records of the struct record at position i
FieldsOfRecord(d, i) ==
    LET locator == U32At(d.structs, 12 * i + 4)
        count   == U32At(d.structs, 12 * i + 8)
    IN IF count = 0 THEN <<>>
       ELSE IF count = 1 THEN <<locator>>
       ELSE [k \in 1..count |-> U32At(d.field_indices, locator + 4 * (k - 1))]

\* the label of the field record f
LabelOfField(d, f) ==
    from_utf8(TakeTillNul(SubSeq(d.labels, 16 * U32At(d.fields, 12 * f + 4) + 1,
                                 16 * U32At(d.fields, 12 * f + 4) + 16))).s

\* the struct references of the field record f of the struct at path here:
\* <<index written, path of the struct referred to>>, in the order written
RefsOfField(d, f, here) ==
    LET ftype == U32At(d.fields, 12 * f)
        slot  == U32At(d.fields, 12 * f + 8)
        label == LabelOfField(d, f)
    IN IF ftype = 14 THEN << <<slot, here \o << <<label, 0>> >> >> >>
       ELSE IF ftype = 15
       THEN [k \in 1..U32At(d.list_indices, slot) |->
               <<U32At(d.list_indices, slot + 4 * k), here \o << <<label, k>> >> >>]
       ELSE <<>>

\* the struct references of the struct record at position i, in the order
\* its fields were emitted
RefsOfRecord(d, i, here) ==
    Flatten([k \in 1..Len(FieldsOfRecord(d, i)) |->
               RefsOfField(d, FieldsOfRecord(d, i)[k], here)])

\* the struct references of the records written so far, in the order of
\* the records
AllRefs == Flatten([i \in 1..Len(packed) |->
                      RefsOfRecord(packer.data, i - 1, packed[i])])

\* the paths referred to, and the indices written for them
RefPaths == [k \in 1..Len(AllRefs) |-> AllRefs[k][2]]
RefIndices == [k \in 1..Len(AllRefs) |-> AllRefs[k][1]]

(***************************************************************************)
(* The round-trip laws.                                                    *)
(***************************************************************************)
\* C1: for every tree of round 1 that satisfies the invariants of the data
\* model, pack succeeds, parse of the bytes written succeeds, and the tree
\* parsed equals the tree packed, type tags included.
RoundTripLaw1 ==
    (round = 1 /\ WellFormed(tree)) =>
        /\ pc \notin {"failed", "panic"}
        /\ pc = "parsed" => (parsed.k = "ok" /\ EqStruct(parsed.v, tree, TRUE))

\* the round trip of a well-formed tree gives the tree back but for the
\* type tags of its structs
RoundTripButTags ==
    (round = 1 /\ WellFormed(tree)) =>
        /\ pc \notin {"failed", "panic"}
        /\ pc = "parsed" => (parsed.k = "ok" /\ EqStruct(parsed.v, tree, FALSE))

RECURSIVE SameTags(_, _)
\* whether the structs two trees both have carry the same type tags
SameTags(a, b) ==
    /\ a.st_type = b.st_type
    /\ \A l \in (DOMAIN a.fields) \cap (DOMAIN b.fields) :
         LET x == a.fields[l]
             y == b.fields[l]
         IN /\ (x.t = "Struct" /\ y.t = "Struct") => SameTags(x.v, y.v)
            /\ (x.t = "List" /\ y.t = "List") =>
                 \A i \in 1..Min(Len(x.v), Len(y.v)) : SameTags(x.v[i], y.v[i])

\* the first u32 of every struct record written is the st_type of the
\* struct it was written for
RecordCarriesTag ==
    pc \in {"pack", "written", "parsed"} =>
        \A i \in 1..Len(packed) :
            U32At(packer.data.structs, 12 * (i - 1)) = NodeAt(tree, packed[i]).st_type

\* C2: the type tag is preserved: the first u32 of every struct record is
\* the st_type of its struct, and every struct of the tree parsed from the
\* bytes carries the st_type of the struct it was packed from.
TypeTagPreserved ==
    (round = 1 /\ pc = "parsed" /\ parsed.k = "ok") =>
        /\ RecordCarriesTag
        /\ SameTags(parsed.v, tree)

\* C3: byte identity: the bytes packed from the tree parsed from a buffer
\* pack produced are that buffer, whatever the order in which the maps of
\* the re-parsed tree are iterated.  Stated for the re-parsed trees whose
\* type tags are the ones that were packed.
ByteIdentity ==
    (round = 2 /\ pc = "written" /\ EqStruct(tree, prev.tree, TRUE)) =>
        buf = prev.buf

\* C4: semantic idempotence: for every buffer parse accepts, packing the
\* tree parsed succeeds, and parsing those bytes succeeds and gives a tree
\* equal to the first, here compared but for the type tags.
SemanticIdempotence ==
    (round = 2 /\ prev.parsed.k = "ok") =>
        /\ pc \notin {"failed", "panic"}
        /\ pc = "parsed" =>
             (parsed.k = "ok" /\ EqStruct(parsed.v, prev.parsed.v, FALSE))

(***************************************************************************)
(* The order and the count of the struct records.                          *)
(***************************************************************************)
\* the tree of a root holding Struct A (itself holding Struct A1) and
\* Struct B, and the paths of A, B and A1 in it
IsExample == EqStruct(tree, SampleTrees[10], TRUE)
PathA == << <<La, 0>> >>
PathB == << <<Lb, 0>> >>
PathA1 == << <<La, 0>>, <<La, 0>> >>

\* C5: struct indices are assigned breadth-first.  At every pass of the
\* loop of pack the records written followed by the queue are the root
\* followed by the structs referred to, in the order of the records that
\* refer to them and, within a record, of the fields emitted (list elements
\* in list order); the indices written for them count from 1 in that
\* order.  With A emitted before B in the example, A = 1, B = 2, A1 = 3.
BreadthFirst ==
    pc \in {"pack", "written"} =>
        /\ packed \o structs = << <<>> >> \o RefPaths
        /\ RefIndices = [k \in 1..Len(AllRefs) |-> k]
        /\ (pc = "written" /\ IsExample /\ RefPaths[1] = PathA) =>
             AllRefs = << <<1, PathA>>, <<2, PathB>>, <<3, PathA1>> >>

BreadthFirstWitness ==
    /\ pc = "written"
    /\ IsExample
    /\ RefPaths[1] = PathA
    /\ packed = << <<>>, PathA, PathB, PathA1 >>

\* C6: after a successful pack, every struct index written in the slot of
\* a Struct field or in an entry of list_indices is the position in the
\* structs block of the record written for the struct referred to, and no
\* two references carry the same index.
IndicesArePositions ==
    pc = "written" =>
        /\ \A k \in 1..Len(AllRefs) :
             /\ AllRefs[k][1] + 1 \in 1..Len(packed)
             /\ packed[AllRefs[k][1] + 1] = AllRefs[k][2]
        /\ \A j, k \in 1..Len(AllRefs) :
             j # k => AllRefs[j][1] # AllRefs[k][1]

IndicesArePositionsWitness ==
    /\ pc = "written"
    /\ \E j, k \in 1..Len(AllRefs) :
         /\ Len(AllRefs[j][2]) = 2
         /\ AllRefs[j][2][2][2] = 0
         /\ AllRefs[k][2][Len(AllRefs[k][2])][2] = 2
         /\ packed[AllRefs[j][1] + 1] = AllRefs[j][2]

\* the struct count of the header of the buffer
HeaderStructCount == U32At(buf, 12)

\* C7: after a successful pack the struct count of the header is the
\* number of struct nodes of the tree, and the last index assigned plus
\* one; at every pass of the loop of pack, the records written plus the
\* length of the queue are the last index assigned plus one.
StructCount ==
    /\ pc = "pack" =>
         /\ packer.header.structs[2] = Len(packer.data.structs) \div 12
         /\ packer.header.structs[2] + Len(structs) = current_st_idx + 1
    /\ pc = "written" =>
         /\ HeaderStructCount = CountNodes(tree)
         /\ HeaderStructCount = current_st_idx + 1

StructCountWitness ==
    /\ pc = "written"
    /\ HeaderStructCount = 5
    /\ CountNodes(tree) = 5
    /\ packer.data.list_indices # <<>>

(***************************************************************************)
(* The header.                                                             *)
(***************************************************************************)
\* the sizes of the elements of the six blocks
ElementSize == <<12, 12, 16, 1, 1, 1>>

RECURSIVE BlocksAbut(_, _, _)
\* whether the pairs k..6 of the header of b name blocks that lie in b one
\* after the other from pos on and end where b ends
BlocksAbut(b, k, pos) ==
    IF k > 6 THEN pos = Len(b)
    ELSE /\ U32At(b, 8 * k) = pos
         /\ U32At(b, 8 * k + 4) >= 0
         /\ U32At(b, 8 * k + 4) <= (Len(b) - pos) \div ElementSize[k]
         /\ BlocksAbut(b, k + 1, pos + U32At(b, 8 * k + 4) * ElementSize[k])

\* a buffer of at least 56 bytes whose offsets are 56 plus the sizes of the
\* blocks before, whose blocks lie within it and which ends with the last
GoodHeader(b) == Len(b) >= 14 * 4 /\ BlocksAbut(b, 1, 14 * 4)

\* C8: whenever pack reaches finalize none of its six assertions fails;
\* the counts of the header are the sizes of the blocks in elements, the
\* offsets written are 56 and then each the one before plus the bytes of
\* its block, and parse_header accepts the buffer written.
FinalizeHolds ==
    /\ pc # "panic"
    /\ (pc = "pack" /\ structs = <<>>) => finalize(packer).ok
    /\ pc = "written" =>
         /\ packer.header.structs[2] * 12 = Len(packer.data.structs)
         /\ packer.header.fields[2] * 12 = Len(packer.data.fields)
         /\ packer.header.labels[2] * 16 = Len(packer.data.labels)
         /\ packer.header.field_data[2] = Len(packer.data.field_data)
         /\ packer.header.field_indices[2] = Len(packer.data.field_indices)
         /\ packer.header.list_indices[2] = Len(packer.data.list_indices)
         /\ U32At(buf, 8) = 56
         /\ U32At(buf, 16) = U32At(buf, 8) + Len(packer.data.structs)
         /\ U32At(buf, 24) = U32At(buf, 16) + Len(packer.data.fields)
         /\ U32At(buf, 32) = U32At(buf, 24) + Len(packer.data.labels)
         /\ U32At(buf, 40) = U32At(buf, 32) + Len(packer.data.field_data)
         /\ U32At(buf, 48) = U32At(buf, 40) + Len(packer.data.field_indices)
         /\ GoodHeader(buf)
         /\ \A build \in Builds : parse_header(buf, build).k = "ok"

FinalizeHoldsWitness ==
    /\ pc = "written"
    /\ packer.data.field_data # <<>>
    /\ packer.data.field_indices # <<>>
    /\ packer.data.list_indices # <<>>
    /\ parse_header(buf, "debug").k = "ok"

\* C9: parse_header returns an error, and parse gives no tree, for every
\* buffer of fewer than 56 bytes, with an offset that is not 56 plus the
\* sizes of the blocks before, with a block that reaches past its end, or
\* with bytes after the last block.
HeaderErrors ==
    (pc = "parsed" /\ ~GoodHeader(buf)) => parsed.k = "err"

\* whether a count of the header times the size of its element passes 2^32
Overflows(b) ==
    \E k \in 1..3 : Mul32(U32At(b, 8 * k + 4), ElementSize[k]).ovf

\* the buffers whose header is not good are refused, but for those with a
\* count whose size in bytes passes 2^32
HeaderErrorsButOverflow ==
    (pc = "parsed" /\ ~GoodHeader(buf) /\ (Len(buf) >= 14 * 4 => ~Overflows(buf)))
        => parsed.k = "err"

\* the bytes of "V3.2"
VersionV32 == <<86, 51, 46, 50>>

\* C10: parse fails for every buffer whose bytes 4..8 are not "V3.2", even
\* when its offsets and the sizes of its blocks agree.
VersionChecked ==
    (pc = "parsed" /\ GoodHeader(buf) /\ SubSeq(buf, 5, 8) # VersionV32)
        => parsed.k = "err"

RECURSIVE HasInvalid(_, _)
\* some field among ls of st, or below one, holds GffFieldValue::Invalid:
\* the value parse_field gives a field record whose type code is not 0..15
HasInvalid(st, ls) ==
    IF ls = {} THEN FALSE
    ELSE LET l   == CHOOSE x \in ls : TRUE
             val == st.fields[l]
         IN \/ val.t = "Invalid"
            \/ val.t = "Struct" /\ HasInvalid(val.v, DOMAIN val.v.fields)
            \/ val.t = "List" /\ \E i \in 1..Len(val.v) :
                                    HasInvalid(val.v[i], DOMAIN val.v[i].fields)
            \/ HasInvalid(st, ls \ {l})

\* C11: parse returns no tree for a buffer in which a field record reached
\* from struct 0 has a type code outside 0..15: the tree of a successful
\* parse holds no value made from such a record.
BadFieldTypeRefused ==
    (pc = "parsed" /\ parsed.k = "ok" /\ round = 1)
        => ~HasInvalid(parsed.v, DOMAIN parsed.v.fields)

\* C12: parse does not abort on a reference out of range: a struct index
\* not below the struct count, or a field index not below the field count,
\* reached from struct 0 ends the parse with an error value, never with the
\* panic of an assertion.
IndexOutOfRangeReturned ==
    (pc = "parsed" /\ parsed.k = "panic")
        => parsed.v \notin {PanicStruct, PanicField}

\* C13: parse does not abort on an offset out of place: a field_indices
\* offset that is no multiple of 4 or is not below the size of the block, or
\* a list_indices offset that is no multiple of 4, reached from struct 0
\* ends the parse with an error value, never with the panic of an assertion.
UnalignedOffsetReturned ==
    (pc = "parsed" /\ parsed.k = "panic")
        => parsed.v \notin {PanicAlign, PanicIndices}

\* the indices of the field records of struct 0, where the blocks hold them
RootFieldIndices(d) ==
    IF Len(d.structs) < 12 THEN {}
    ELSE LET locator == U32At(d.structs, 4)
             count   == U32At(d.structs, 8)
         IN IF count = 0 THEN {}
            ELSE IF count = 1 THEN {locator}
            ELSE {U32At(d.field_indices, locator + 4 * (k - 1)) :
                    k \in {j \in 1..(Len(d.field_indices) \div 4) :
                             /\ ULt(j - 1, count)
                             /\ locator >= 0
                             /\ locator % 4 = 0
                             /\ locator <= Len(d.field_indices) - 4 * j}}

\* the struct indices of the List that field record f holds, where f is a
\* List field and the blocks hold the whole of the list
ListAt(d, f) ==
    IF f < 0 \/ f >= Len(d.fields) \div 12 THEN <<>>
    ELSE IF U32At(d.fields, 12 * f) # 15 THEN <<>>
    ELSE LET slot == U32At(d.fields, 12 * f + 8)
         IN IF slot < 0 \/ slot % 4 # 0 \/ slot > Len(d.list_indices) - 4 THEN <<>>
            ELSE LET n == U32At(d.list_indices, slot)
                 IN IF n < 0 \/ n > (Len(d.list_indices) - slot - 4) \div 4 THEN <<>>
                    ELSE [k \in 1..n |-> U32At(d.list_indices, slot + 4 * k)]

\* a List field of struct 0 names one struct index twice
RepeatedListEntry(d) ==
    \E f \in RootFieldIndices(d) :
      \E i, j \in 1..Len(ListAt(d, f)) :
        i < j /\ ListAt(d, f)[i] = ListAt(d, f)[j]

RepeatsOf(h) == h.k = "ok" /\ RepeatedListEntry(h.d)

\* the buffer holds a List of struct 0 that names one struct index twice
RepeatsIn(data) == RepeatsOf(parse_header(data, "release"))

\* C14: parse returns an error for every buffer in which a struct index is
\* referenced more than once among the Struct fields and List entries reached
\* from struct 0; here for a List of struct 0 that repeats an index.
DuplicateRefused ==
    (pc = "parsed" /\ round = 1 /\ RepeatsIn(buf)) => parsed.k = "err"

\* What holds of C14: no tree is returned for such a buffer, the parse ends
\* with an error or with a panic.
DuplicateNeverParsed ==
    (pc = "parsed" /\ round = 1 /\ RepeatsIn(buf)) => parsed.k \in {"err", "panic"}

\* a buffer with a repeated index for which parse returned an error
DuplicateRefusedSomewhere ==
    ~(pc = "parsed" /\ round = 1 /\ RepeatsIn(buf) /\ parsed.k = "err")

RECURSIVE LabelsOf(_, _)
\* the labels of the fields ls of st and of the structs below them
LabelsOf(st, ls) ==
    IF ls = {} THEN {}
    ELSE LET l   == CHOOSE x \in ls : TRUE
             val == st.fields[l]
         IN {l}
            \cup (CASE val.t = "Struct" -> LabelsOf(val.v, DOMAIN val.v.fields)
                    [] val.t = "List" ->
                         UNION {LabelsOf(val.v[i], DOMAIN val.v[i].fields) :
                                  i \in 1..Len(val.v)}
                    [] OTHER -> {})
            \cup LabelsOf(st, ls \ {l})

\* the distinct labels of the tree being packed
TreeLabels == LabelsOf(tree, DOMAIN tree.fields)

\* the names of the values, at the place of their type code plus one
TypeNames ==
    <<"Byte", "Char", "Word", "Short", "DWord", "Int", "DWord64", "Int64",
      "Float", "Double", "CExoString", "CResRef", "CExoLocString", "Void",
      "Struct", "List">>

\* the 16 bytes of slot number s of the labels block
SlotAt(d, s) == SubSeq(d.labels, 16 * s + 1, 16 * s + 16)

\* the field record f carries the type code and the label slot of a field
\* of node
OwnLabel(d, f, node) ==
    /\ LabelOfField(d, f) \in DOMAIN node.fields
    /\ U32At(d.fields, 12 * f) + 1 \in 1..Len(TypeNames)
    /\ TypeNames[U32At(d.fields, 12 * f) + 1] = node.fields[LabelOfField(d, f)].t
    /\ SlotAt(d, U32At(d.fields, 12 * f + 4)) = LabelSlot(Utf8(LabelOfField(d, f)))

\* the field records of the struct record at position i carry the labels
\* of the struct written there, each once
RecordLabels(d, i, node) ==
    /\ Len(FieldsOfRecord(d, i)) = Cardinality(DOMAIN node.fields)
    /\ \A k \in 1..Len(FieldsOfRecord(d, i)) : OwnLabel(d, FieldsOfRecord(d, i)[k], node)
    /\ \A j, k \in 1..Len(FieldsOfRecord(d, i)) :
         j # k => LabelOfField(d, FieldsOfRecord(d, i)[j])
                    # LabelOfField(d, FieldsOfRecord(d, i)[k])

\* C15: after a successful pack the labels block holds one 16-byte
\* NUL-padded slot for each distinct label of the tree and nothing else, the
\* label count of the header is the number of distinct labels, and every
\* field record carries the index of the slot of its own label, whichever
\* struct the field is in.
LabelsShared ==
    pc = "written" =>
        /\ Len(packer.data.labels) = 16 * Cardinality(TreeLabels)
        /\ packer.header.labels[2] = Cardinality(TreeLabels)
        /\ \A l \in TreeLabels :
             Cardinality({s \in 0..(Cardinality(TreeLabels) - 1) :
                            SlotAt(packer.data, s) = LabelSlot(Utf8(l))}) = 1
        /\ \A i \in 1..Len(packed) :
             RecordLabels(packer.data, i - 1, NodeAt(tree, packed[i]))

\* a tree of several labels, one of them in more than one struct, is written
LabelsSharedWitness ==
    /\ pc = "written"
    /\ Cardinality(TreeLabels) >= 2
    /\ packer.header.fields[2] > Cardinality(TreeLabels)
    /\ \E i, j \in 1..Len(packed) :
         /\ i # j
         /\ DOMAIN NodeAt(tree, packed[i]).fields
              \cap DOMAIN NodeAt(tree, packed[j]).fields # {}

RECURSIVE HasLongResRef(_, _)
\* some CResRef among the fields ls of st, or below one, is longer than 16
\* bytes once in lower case
HasLongResRef(st, ls) ==
    IF ls = {} THEN FALSE
    ELSE LET l   == CHOOSE x \in ls : TRUE
             val == st.fields[l]
         IN \/ val.t = "CResRef" /\ Len(Utf8(to_lowercase(val.v))) > 16
            \/ val.t = "Struct" /\ HasLongResRef(val.v, DOMAIN val.v.fields)
            \/ val.t = "List" /\ \E i \in 1..Len(val.v) :
                                    HasLongResRef(val.v[i], DOMAIN val.v[i].fields)
            \/ HasLongResRef(st, ls \ {l})

\* the tree being packed has a label of more than 16 bytes
LongLabel == \E l \in TreeLabels : Len(Utf8(l)) > 16

\* the tree being packed has a CResRef of more than 16 bytes
LongResRef == HasLongResRef(tree, DOMAIN tree.fields)

\* the tree being packed has a value pack_field does not handle
Unhandled == HasInvalid(tree, DOMAIN tree.fields)

Label16Witness ==
    /\ pc = "written"
    /\ \E l \in TreeLabels : Len(Utf8(l)) = 16

\* the type codes of the values kept in the field_data block
InFieldData == {6, 7, 9, 10, 11, 12, 13}

\* the field_data block has an item, or its end, at offset off
ItemAt(d, off) ==
    \/ off = Len(d.field_data)
    \/ \E f \in 0..(Len(d.fields) \div 12 - 1) :
         /\ U32At(d.fields, 12 * f) \in InFieldData
         /\ U32At(d.fields, 12 * f + 8) = off

\* the field record f, if of type CResRef, points at one length byte n <= 16
\* followed by the n bytes of s in lower case, s the CResRef of the field
\* of node the record was written for, and the next item follows them
ResRefEmitted(d, f, node) ==
    U32At(d.fields, 12 * f) = 11 =>
        LET off == U32At(d.fields, 12 * f + 8)
            s   == node.fields[LabelOfField(d, f)].v
        IN /\ off + 1 <= Len(d.field_data)
           /\ d.field_data[off + 1] <= 16
           /\ d.field_data[off + 1] = Len(Utf8(to_lowercase(s)))
           /\ off + 1 + d.field_data[off + 1] <= Len(d.field_data)
           /\ SubSeq(d.field_data, off + 2, off + 1 + d.field_data[off + 1])
                = Utf8(to_lowercase(s))
           /\ ItemAt(d, off + 1 + d.field_data[off + 1])

\* ResRefEmitted of every field record of the struct record at position i
RecordResRefs(d, i, node) ==
    \A k \in 1..Len(FieldsOfRecord(d, i)) :
      ResRefEmitted(d, FieldsOfRecord(d, i)[k], node)

\* the last field record written is a CResRef pointing at the end of the
\* field_data block: no length byte and no byte of the string was emitted
NothingEmitted(d) ==
    /\ Len(d.fields) >= 12
    /\ U32At(d.fields, Len(d.fields) - 12) = 11
    /\ U32At(d.fields, Len(d.fields) - 4) = Len(d.field_data)

ResRefRefusedWitness ==
    pc = "failed" /\ err = "ResRef too long" /\ LongResRef

RECURSIVE KeysAt(_, _, _)
\* the keys of the n substrings that begin at offset off of field_data,
\* each with the bytes of its string
KeysAt(fd, off, n) ==
    IF n = 0 THEN <<>>
    ELSE << <<U32At(fd, off), SubSeq(fd, off + 9, off + 8 + U32At(fd, off + 4))>> >>
           \o KeysAt(fd, off + 8 + U32At(fd, off + 4), n - 1)

\* the keys written for the localized string at the head of field_data
KeysWritten == KeysAt(packer.data.field_data, 12, U32At(packer.data.field_data, 8))

\* the substrings of the one localized string of the tree
TreeStrs == tree.fields[La].v.strs

\* the substrings of the localized string parsed
ParsedStrs == parsed.v.fields[La].v.strs

\* C18: the key of a substring is a bijection between the pairs of a GffLang
\* and a GffGender and the keys written: the packer writes 2 * lang + gender,
\* distinct pairs get distinct keys, and the parser gives back the pair it
\* decodes as gender = key % 2 and lang = key / 2, with the string written
\* under the key.
KeyCodec ==
    /\ pc \in {"written", "parsed"} =>
         /\ Len(KeysWritten) = Cardinality(DOMAIN TreeStrs)
         /\ {KeysWritten[i][1] : i \in 1..Len(KeysWritten)}
              = {2 * k[1] + k[2] : k \in DOMAIN TreeStrs}
         /\ Cardinality({KeysWritten[i][1] : i \in 1..Len(KeysWritten)})
              = Cardinality(DOMAIN TreeStrs)
         /\ \A i \in 1..Len(KeysWritten) :
              /\ <<KeysWritten[i][1] \div 2, KeysWritten[i][1] % 2>> \in DOMAIN TreeStrs
              /\ KeysWritten[i][2]
                   = encode(TreeStrs[<<KeysWritten[i][1] \div 2, KeysWritten[i][1] % 2>>])
    /\ pc = "parsed" =>
         /\ parsed.k = "ok"
         /\ DOMAIN ParsedStrs = DOMAIN TreeStrs
         /\ \A k \in DOMAIN TreeStrs : ParsedStrs[k] = TreeStrs[k]

\* a string of two substrings whose keys would be one were the language not
\* doubled, Korean and female among them, has been parsed
KeyCodecWitness ==
    /\ pc = "parsed" /\ round = 1
    /\ parsed.k = "ok"
    /\ DOMAIN ParsedStrs = {<<128, Female>>, <<129, Male>>}

\* the u32 the resolver is tried on: the GffLang values, their neighbours,
\* and the ends of the range
LangsTried == (0..300) \cup {-1, -2147483647 - 1, 2147483647, 65536, 16777216}

\* the table of Encodings::NeverwinterNights
EncodingsTable ==
    /\ encodings(<<>>) = "WINDOWS_1252"
    /\ \A n \in 0..4 : encodings(<<n>>) = "WINDOWS_1252"
    /\ encodings(<<5>>) = "WINDOWS_1250"
    /\ encodings(<<128>>) = "EUC_KR"
    /\ encodings(<<129>>) = "BIG5"
    /\ encodings(<<130>>) = "GBK"
    /\ encodings(<<131>>) = "SHIFT_JIS"
    /\ \A n \in LangsTried \ {0, 1, 2, 3, 4, 5, 128, 129, 130, 131} :
         encodings(<<n>>) = "Err"
    /\ \A n \in GffLang : encodings(<<n>>) # "Err"

\* struct 0 has one field, a CExoLocString that lies in the blocks, and the
\* key of its first substring has a key / 2 that is no GffLang
BadKeyIn(d) ==
    /\ Len(d.structs) >= 12
    /\ U32At(d.structs, 8) = 1
    /\ U32At(d.structs, 4) >= 0
    /\ U32At(d.structs, 4) < Len(d.fields) \div 12
    /\ U32At(d.fields, 12 * U32At(d.structs, 4)) = 12
    /\ LET off == U32At(d.fields, 12 * U32At(d.structs, 4) + 8)
       IN /\ off >= 0
          /\ off <= Len(d.field_data) - 16
          /\ U32At(d.field_data, off) >= 12
          /\ U32At(d.field_data, off) - 8 <= Len(d.field_data) - off - 12
          /\ U32At(d.field_data, off + 8) # 0
          /\ LET val == U32At(d.field_data, off + 12)
             IN val < 0 \/ val \div 2 \notin GffLang

BadKeyOf(h) == h.k = "ok" /\ BadKeyIn(h.d)

\* the buffer holds, where parse reads it, a substring of a bad key
BadKey(data) == BadKeyOf(parse_header(data, "release"))

\* C19: the resolver Encodings::NeverwinterNights gives Windows-1252 for None
\* and for 0..4, Windows-1250 for 5, EUC-KR for 128, Big5 for 129, GBK for
\* 130, Shift-JIS for 131 and an error for every other u32, so it succeeds
\* on every GffLang; and parse returns an error for a substring whose
\* key / 2 is no GffLang.
UnknownLang ==
    /\ EncodingsTable
    /\ (pc = "parsed" /\ round = 1 /\ BadKey(buf)) => parsed.k = "err"

\* the buffer of a localized string, the key of its first substring
\* damaged, has been refused
UnknownLangWitness ==
    /\ pc = "parsed" /\ round = 1 /\ wild
    /\ BadKey(buf)
    /\ parsed.k = "err"

\* C20: pack returns Ok only if the 56 bytes of the header followed by the
\* six blocks, whole and in order, have been written to the sink: a sink
\* that reports an I/O error makes pack return an error.
WriteFailed ==
    pc \in {"written", "lost"} =>
        buf = HeaderBytes(packer.header) \o packer.data.structs
                \o packer.data.fields \o packer.data.labels
                \o packer.data.field_data \o packer.data.field_indices
                \o packer.data.list_indices

\* What holds of C20: when the sink reports no error, what it holds once
\* the BufWriter is emptied is the header and the six blocks.
WrittenWhole ==
    (pc = "written" /\ ~wild) =>
        buf = HeaderBytes(packer.header) \o packer.data.structs
                \o packer.data.fields \o packer.data.labels
                \o packer.data.field_data \o packer.data.field_indices
                \o packer.data.list_indices

\* how many fields the struct written at position i of the structs block has
FieldsAt(i) == Cardinality(DOMAIN NodeAt(tree, packed[i + 1]).fields)

RECURSIVE IndicesBefore(_)
\* how many field indices the structs written before position i have put
\* into field_indices
IndicesBefore(i) ==
    IF i = 0 THEN 0
    ELSE IndicesBefore(i - 1) + (IF FieldsAt(i - 1) >= 2 THEN FieldsAt(i - 1) ELSE 0)

RECURSIVE FieldsBefore(_)
\* how many field records the structs written before position i have
FieldsBefore(i) == IF i = 0 THEN 0 ELSE FieldsBefore(i - 1) + FieldsAt(i - 1)

\* the struct record at position i designates the field records of the
\* struct written there
OwnFields(d, i) ==
    /\ U32At(d.structs, 12 * i + 8) = FieldsAt(i)
    /\ FieldsAt(i) = 1 => U32At(d.structs, 12 * i + 4) = FieldsBefore(i)
    /\ FieldsAt(i) >= 2 =>
         /\ U32At(d.structs, 12 * i + 4) = 4 * IndicesBefore(i)
         /\ U32At(d.structs, 12 * i + 4) + 4 * FieldsAt(i) <= Len(d.field_indices)
         /\ \A k \in 1..FieldsAt(i) :
              U32At(d.field_indices, U32At(d.structs, 12 * i + 4) + 4 * (k - 1))
                = FieldsBefore(i) + k - 1
    /\ FieldsAt(i) >= 1 => RecordLabels(d, i, NodeAt(tree, packed[i + 1]))

\* C21: the struct record of every struct of n >= 1 fields designates that
\* struct's own field records: for n = 1 the locator is the index of its
\* field record; for n >= 2 it is the byte offset in field_indices where its
\* n field indices are appended, in the order the fields were emitted, n
\* consecutive positions of the fields block.  The field_indices count of
\* the header is in bytes, and a struct of fewer than two fields adds
\* nothing to field_indices.
LocatorOwnFields ==
    pc \in {"pack", "written", "lost"} =>
        /\ \A i \in 0..(Len(packed) - 1) : OwnFields(packer.data, i)
        /\ Len(packer.data.field_indices) = 4 * IndicesBefore(Len(packed))
        /\ packer.header.field_indices[2] = 4 * IndicesBefore(Len(packed))
        /\ Len(packer.data.fields) = 12 * FieldsBefore(Len(packed))

\* a struct of several fields has been written after another one, and a
\* struct of one field after that
LocatorOwnFieldsWitness ==
    /\ pc = "written"
    /\ \E i, j \in 0..(Len(packed) - 1) :
         /\ FieldsAt(i) >= 2 /\ IndicesBefore(i) > 0
         /\ FieldsAt(j) = 1 /\ FieldsBefore(j) > 0

\* the struct pack is about to write has no field
EmptyNext ==
    /\ pc = "pack"
    /\ structs # <<>>
    /\ DOMAIN NodeAt(tree, struct_to_write(structs)).fields = {}

\* the step of pack that writes a struct of no field: a struct record of
\* the tag, the number of field records emitted so far and 0, and nothing
\* else
EmptyStep ==
    EmptyNext =>
        /\ packer'.data.structs
             = packer.data.structs
                 \o LE(NodeAt(tree, struct_to_write(structs)).st_type, 4)
                 \o LE(Len(packer.data.fields) \div 12, 4) \o LE(0, 4)
        /\ packer'.data.fields = packer.data.fields
        /\ packer'.data.labels = packer.data.labels
        /\ packer'.data.field_indices = packer.data.field_indices
        /\ packer'.data.field_data = packer.data.field_data
        /\ packer'.data.list_indices = packer.data.list_indices
        /\ packer'.header.fields = packer.header.fields
        /\ pc' = "pack"

\* the bytes of the buffer that hold the locator of struct record i
LocatorBytes(i) == (14 * 4 + 12 * i + 5)..(14 * 4 + 12 * i + 8)

\* the buffer is what pack wrote but for the locator of a struct record
\* whose field count is 0
EmptyLocatorDamaged ==
    /\ Len(buf) = Len(packer.writer)
    /\ buf # packer.writer
    /\ \E i \in 0..(Len(packed) - 1) :
         /\ FieldsAt(i) = 0
         /\ \A j \in 1..Len(buf) : buf[j] # packer.writer[j] => j \in LocatorBytes(i)

\* parse gives the tree whatever the locator of a struct of no field is
EmptyLocatorIgnored ==
    (pc = "parsed" /\ round = 1 /\ EmptyLocatorDamaged)
        => (parsed.k = "ok" /\ EqStruct(parsed.v, tree, FALSE))

\* C22: for a struct of no field pack writes a struct record whose locator
\* is the number of field records emitted so far and whose field count is
\* 0, and adds nothing to the fields, labels or field_indices block; parse
\* of such a record gives an empty struct whatever the locator is.
EmptyStruct == [][EmptyStep]_vars /\ []EmptyLocatorIgnored

\* the buffer of a list holding an empty struct, the locator of that
\* struct damaged, has been parsed to the tree
EmptyStructWitness ==
    /\ pc = "parsed" /\ round = 1
    /\ EmptyLocatorDamaged
    /\ parsed.k = "ok"
    /\ \E i \in 0..(Len(packed) - 1) :
         FieldsAt(i) = 0 /\ U32At(packer.data.structs, 12 * i + 4) > 0

\* the position in the structs block of the struct that field record f was
\* written for
OwnerOf(f) ==
    CHOOSE i \in 0..(Len(packed) - 1) :
      FieldsBefore(i) <= f /\ f < FieldsBefore(i) + FieldsAt(i)

\* the value of the tree that field record f was written for
ValueOf(d, f) == NodeAt(tree, packed[OwnerOf(f) + 1]).fields[LabelOfField(d, f)]

\* the bytes a value adds to field_data
PayloadOf(val) ==
    CASE val.t \in {"DWord64", "Int64", "Double"} -> LE8(val.v)
      [] val.t = "CExoString" -> LE(Len(encode(val.v)), 4) \o encode(val.v)
      [] val.t = "Void" -> LE(Len(val.v), 4) \o val.v
      [] OTHER -> <<>>

\* how many bytes a value adds to field_data
PayloadLen(val) ==
    CASE val.t \in {"DWord64", "Int64", "Double"} -> 8
      [] val.t = "CExoString" -> 4 + Len(encode(val.v))
      [] val.t = "Void" -> 4 + Len(val.v)
      [] val.t = "CResRef" -> 1 + Len(Utf8(to_lowercase(val.v)))
      [] val.t = "CExoLocString" ->
           12 + SumLen(val.v.strs, CHOOSE o \in Orders(DOMAIN val.v.strs) : TRUE)
      [] OTHER -> 0

\* how many bytes a value adds to list_indices
ListLen(val) == IF val.t = "List" THEN 4 + 4 * Len(val.v) ELSE 0

RECURSIVE DataBefore(_, _)
\* the length of field_data before the payload of field record f
DataBefore(d, f) ==
    IF f = 0 THEN 0 ELSE DataBefore(d, f - 1) + PayloadLen(ValueOf(d, f - 1))

RECURSIVE ListBefore(_, _)
\* the length of list_indices before the list of field record f
ListBefore(d, f) ==
    IF f = 0 THEN 0 ELSE ListBefore(d, f - 1) + ListLen(ValueOf(d, f - 1))

\* the slot of field record f and what it points at
OutOfLine(d, f, val) ==
    /\ U32At(d.fields, 12 * f) \in InFieldData =>
         /\ U32At(d.fields, 12 * f + 8) = DataBefore(d, f)
         /\ PayloadLen(val) > 0
         /\ DataBefore(d, f) + PayloadLen(val) <= Len(d.field_data)
         /\ U32At(d.fields, 12 * f) \in {6, 7, 9, 10, 13} =>
              SubSeq(d.field_data, DataBefore(d, f) + 1,
                     DataBefore(d, f) + PayloadLen(val)) = PayloadOf(val)
    /\ U32At(d.fields, 12 * f) \in {6, 7, 9} => PayloadLen(val) = 8
    /\ U32At(d.fields, 12 * f) = 15 =>
         /\ U32At(d.fields, 12 * f + 8) = ListBefore(d, f)
         /\ ListBefore(d, f) + ListLen(val) <= Len(d.list_indices)
         /\ U32At(d.list_indices, ListBefore(d, f)) = Len(val.v)
    /\ U32At(d.fields, 12 * f) \in {0, 1, 2, 3, 4, 5, 8, 14} =>
         PayloadLen(val) = 0 /\ ListLen(val) = 0
    /\ U32At(d.fields, 12 * f) + 1 \in 1..Len(TypeNames)
    /\ TypeNames[U32At(d.fields, 12 * f) + 1] = val.t

\* C23: the slot of the field record of every out-of-line field is the
\* length its block (field_data for the types 6, 7, 9, 10, 11, 12, 13,
\* list_indices for 15) had when the payload of the field was appended, the
\* payloads of successive fields follow one another with no gap and no
\* overlap, and the payload is 8 bytes for 6, 7, 9, a u32 length and the
\* bytes for 10 and 13, a u32 N and N struct indices for 15; the inline
\* types add nothing to field_data.
OutOfLineSlots ==
    pc \in {"pack", "written", "lost"} =>
        /\ \A f \in 0..(Len(packer.data.fields) \div 12 - 1) :
             OutOfLine(packer.data, f, ValueOf(packer.data, f))
        /\ Len(packer.data.field_data)
             = DataBefore(packer.data, Len(packer.data.fields) \div 12)
        /\ Len(packer.data.list_indices)
             = ListBefore(packer.data, Len(packer.data.fields) \div 12)

\* two out-of-line fields and an inline one have been written, the second
\* payload away from the start of field_data
OutOfLineSlotsWitness ==
    /\ pc = "written"
    /\ \E f, g, h \in 0..(Len(packer.data.fields) \div 12 - 1) :
         /\ U32At(packer.data.fields, 12 * f) \in {6, 7, 9}
         /\ U32At(packer.data.fields, 12 * g) \in {10, 13}
         /\ U32At(packer.data.fields, 12 * g + 8) > 0
         /\ U32At(packer.data.fields, 12 * h) \in {0, 1, 2, 3, 4, 5, 8}

RECURSIVE TotalOf(_, _)
\* 8 + len_i summed over the substrings of the keys ks
TotalOf(strs, ks) ==
    IF ks = {} THEN 0
    ELSE LET k == CHOOSE x \in ks : TRUE
         IN 8 + Len(encode(strs[k])) + TotalOf(strs, ks \ {k})

\* the localized string val lies at offset off of field_data: total_len,
\* tlk_ref, str_count, the substrings, and then the next item
LocStrAt(d, off, val) ==
    /\ off + 12 <= Len(d.field_data)
    /\ U32At(d.field_data, off) = 8 + TotalOf(val.strs, DOMAIN val.strs)
    /\ U32At(d.field_data, off + 4) = val.str_ref
    /\ U32At(d.field_data, off + 8) = Cardinality(DOMAIN val.strs)
    /\ off + 4 + U32At(d.field_data, off) <= Len(d.field_data)
    /\ {KeysAt(d.field_data, off + 12, Cardinality(DOMAIN val.strs))[i] :
          i \in 1..Cardinality(DOMAIN val.strs)}
         = {<<2 * k[1] + k[2], encode(val.strs[k])>> : k \in DOMAIN val.strs}
    /\ ItemAt(d, off + 4 + U32At(d.field_data, off))

\* LocStrAt of field record f, if it is a CExoLocString
LocStrField(d, f, val) ==
    U32At(d.fields, 12 * f) = 12 =>
        /\ val.t = "CExoLocString"
        /\ LocStrAt(d, U32At(d.fields, 12 * f + 8), val.v)

\* the root of the tree has a localized string
HasLocStr == \E l \in DOMAIN tree.fields : tree.fields[l].t = "CExoLocString"

\* C24: for a CExoLocString of k substrings of encoded lengths len_1..len_k
\* pack emits total_len = 8 + the sum of 8 + len_i, then tlk_ref, then
\* str_count = k, then k records of key, len_i and bytes, field_data growing
\* by 4 + total_len; and the parser reads back the k substrings with the
\* same keys and strings.
LocStrLayout ==
    /\ pc \in {"pack", "written", "lost"} =>
         \A f \in 0..(Len(packer.data.fields) \div 12 - 1) :
           LocStrField(packer.data, f, ValueOf(packer.data, f))
    /\ (pc = "parsed" /\ round = 1 /\ HasLocStr) =>
         (parsed.k = "ok" /\ EqStruct(parsed.v, tree, FALSE))

\* a localized string of three substrings, one of them empty, written
\* after a string, has been parsed
LocStrLayoutWitness ==
    /\ pc = "parsed" /\ round = 1 /\ parsed.k = "ok"
    /\ \E l \in DOMAIN tree.fields :
         /\ tree.fields[l].t = "CExoLocString"
         /\ Cardinality(DOMAIN tree.fields[l].v.strs) = 3
    /\ \E f \in 0..(Len(packer.data.fields) \div 12 - 1) :
         /\ U32At(packer.data.fields, 12 * f) = 12
         /\ U32At(packer.data.fields, 12 * f + 8) > 0

\* C25: parse returns an error value, and does not abort, for a
\* variable-length field whose declared length does not fit the field_data
\* block; here for a CExoLocString whose total_len is smaller than 8.
LengthOverflowReturned ==
    (pc = "parsed" /\ parsed.k = "panic") => parsed.v # PanicSub


\* the byte counts of the field_indices and list_indices blocks are multiples
\* of 4 in the Data h of parse_header
CountsAligned(h) ==
    /\ h.d.header.field_indices[2] % 4 = 0
    /\ h.d.header.list_indices[2] % 4 = 0

\* C26: parse_header rejects every buffer whose field_indices byte count or
\* list_indices byte count is not a multiple of 4.
OddCountRejected ==
    (pc = "parsed" /\ parsed.k = "ok")
        => CountsAligned(parse_header(buf, "release"))

\* after any successful pack both counts are multiples of 4
PackedCountsAligned ==
    (pc \in {"written", "lost"} /\ ~wild)
        => /\ packer.header.field_indices[2] % 4 = 0
           /\ packer.header.list_indices[2] % 4 = 0

\* C27: during one parse, parse_struct is entered at most once for each struct
\* index, the root included: index 0, entered by parse itself, is never
\* accepted by visited_structs.insert and entered again.
RootEnteredOnce ==
    pc = "parsed" => 0 \notin parsed.vis

\* C28: parse terminates on every finite buffer and returns a tree or an
\* error, the buffers whose struct references form a cycle and those whose
\* lists declare more entries than list_indices holds included.
ParseReturns ==
    pc = "parsed" => parsed.k \in {"ok", "err"}

\* the struct count of the header h of a buffer parse_header accepts, a u32
\* above 2^31 - 1 standing for no bound on the indices met here
EntriesWithin(h, vis) ==
    \/ h.k # "ok"
    \/ h.d.header.structs[2] < 0
    \/ Cardinality(vis) <= h.d.header.structs[2]

\* What holds of C28: parse_struct is entered once by parse and once for each
\* index visited_structs.insert accepts, at most struct count + 1 times,
\* whether the parse ends with a tree, an error or a panic.
EntriesBounded ==
    pc = "parsed" => EntriesWithin(parse_header(buf, "release"), parsed.vis)

(***************************************************************************)
(* deserialize.rs: TryFrom<&GffFieldValue> for the primitive types.  An    *)
(* integer primitive is held by its bytes in memory, lowest first, so that *)
(* a widening into() is the extension it performs; an f32 and an f64 are   *)
(* held by their bit patterns.                                             *)
(***************************************************************************)
\* how many sample payloads of each variant are converted
MaxSample == 3

\* Result::Ok and Result::Err of try_from
Ok(v) == [ok |-> TRUE, v |-> v]

Err(msg) == [ok |-> FALSE, v |-> msg]

\* the bytes of the payload of an integer variant
Mem(val) ==
    CASE val.t \in {"Byte", "Char"}     -> LE(val.v, 1)
      [] val.t \in {"Word", "Short"}    -> LE(val.v, 2)
      [] val.t \in {"DWord", "Int"}     -> LE(val.v, 4)
      [] val.t \in {"DWord64", "Int64"} -> LE8(val.v)

\* From<u8> for u16 and the like: w bytes, the high ones 0
ZeroExtend(b, w) == b \o [i \in 1..(w - Len(b)) |-> 0]

\* the extension that takes a negative number for its bit pattern
SignExtendUnsigned(b, w) == b \o [i \in 1..(w - Len(b)) |-> 0]

\* From<i8> for i16 and the like: w bytes, the high ones the sign
SignExtend(b, w) ==
    b \o [i \in 1..(w - Len(b)) |-> IF b[Len(b)] >= 128 THEN 255 ELSE 0]

\* the bit pattern <<low, high>> of the f64 of sign s, exponent field e and
\* the 23 high bits frac of the fraction
F64Bits(s, e, frac) ==
    << IF frac % 8 >= 4 THEN ((frac % 8) - 8) * 536870912
       ELSE (frac % 8) * 536870912,
       (IF s = 1 THEN -2147483647 - 1 ELSE 0) + e * 1048576 + frac \div 8 >>

RECURSIVE F64OfSubnormal(_, _, _)
\* the f64 of a subnormal f32 of sign s: m * 2^(e - 1023 - 23), m < 2^24
F64OfSubnormal(s, e, m) ==
    IF m >= 8388608 THEN F64Bits(s, e, m - 8388608)
    ELSE F64OfSubnormal(s, e - 1, 2 * m)

\* From<f32> for f64, on bit patterns
F32ToF64(b) ==
    LET s == IF b < 0 THEN 1 ELSE 0
        e == Magnitude(b) \div 8388608
        m == Magnitude(b) % 8388608
    IN IF e = 255 THEN F64Bits(s, 2047, m)
       ELSE IF e = 0 /\ m = 0 THEN F64Bits(s, 0, 0)
       ELSE IF e = 0 THEN F64OfSubnormal(s, 897, m)
       ELSE F64Bits(s, e + 896, m)

\* TryFrom<&GffFieldValue> for f32
try_from_f32(val) ==
    CASE val.t = "Float" -> Ok(val.v)
      [] OTHER -> Err("expected Float")

\* TryFrom<&GffFieldValue> for f64
try_from_f64(val) ==
    CASE val.t = "Float"  -> Ok(F32ToF64(val.v))
      [] val.t = "Double" -> Ok(val.v)
      [] OTHER -> Err("expected Float/Double")

\* TryFrom<&GffFieldValue> for i8
try_from_i8(val) ==
    CASE val.t = "Char" -> Ok(Mem(val))
      [] OTHER -> Err("expected Char")

\* TryFrom<&GffFieldValue> for u8
try_from_u8(val) ==
    CASE val.t = "Byte" -> Ok(Mem(val))
      [] OTHER -> Err("expected Byte")

\* TryFrom<&GffFieldValue> for i16
try_from_i16(val) ==
    CASE val.t = "Char"  -> Ok(SignExtend(Mem(val), 2))
      [] val.t = "Short" -> Ok(Mem(val))
      [] OTHER -> Err("expected Char/Short")

\* TryFrom<&GffFieldValue> for u16
try_from_u16(val) ==
    CASE val.t = "Byte" -> Ok(ZeroExtend(Mem(val), 2))
      [] val.t = "Word" -> Ok(Mem(val))
      [] OTHER -> Err("expected Byte/Word")

\* TryFrom<&GffFieldValue> for i32
try_from_i32(val) ==
    CASE val.t = "Char"  -> Ok(SignExtend(Mem(val), 4))
      [] val.t = "Short" -> Ok(SignExtend(Mem(val), 4))
      [] val.t = "Int"   -> Ok(Mem(val))
      [] OTHER -> Err("expected Char/Short/Int")

\* TryFrom<&GffFieldValue> for u32
try_from_u32(val) ==
    CASE val.t = "Byte"  -> Ok(ZeroExtend(Mem(val), 4))
      [] val.t = "Word"  -> Ok(ZeroExtend(Mem(val), 4))
      [] val.t = "DWord" -> Ok(Mem(val))
      [] OTHER -> Err("expected Byte/Word/DWord")

\* TryFrom<&GffFieldValue> for i64
try_from_i64(val) ==
    CASE val.t = "Char"  -> Ok(SignExtend(Mem(val), 8))
      [] val.t = "Short" -> Ok(SignExtend(Mem(val), 8))
      [] val.t = "Int"   -> Ok(SignExtend(Mem(val), 8))
      [] val.t = "Int64" -> Ok(Mem(val))
      [] OTHER -> Err("expected Char/Short/Int/Int64")

\* TryFrom<&GffFieldValue> for u64
try_from_u64(val) ==
    CASE val.t = "Byte"    -> Ok(ZeroExtend(Mem(val), 8))
      [] val.t = "Word"    -> Ok(ZeroExtend(Mem(val), 8))
      [] val.t = "DWord"   -> Ok(ZeroExtend(Mem(val), 8))
      [] val.t = "DWord64" -> Ok(Mem(val))
      [] OTHER -> Err("expected Byte/Word/DWord/DWord64")

\* the primitive types a GffFieldValue converts to
Targets == {"f32", "f64", "i8", "u8", "i16", "u16", "i32", "u32", "i64", "u64"}

\* T::try_from(val), T named by to
try_from(to, val) ==
    CASE to = "f32" -> try_from_f32(val)
      [] to = "f64" -> try_from_f64(val)
      [] to = "i8"  -> try_from_i8(val)
      [] to = "u8"  -> try_from_u8(val)
      [] to = "i16" -> try_from_i16(val)
      [] to = "u16" -> try_from_u16(val)
      [] to = "i32" -> try_from_i32(val)
      [] to = "u32" -> try_from_u32(val)
      [] to = "i64" -> try_from_i64(val)
      [] to = "u64" -> try_from_u64(val)

\* the payloads converted, of each variant of GffFieldValue
SampleValues ==
    [Byte          |-> <<Byte(0), Byte(255), Byte(7), Byte(128)>>,
     Char          |-> <<Char(-128), Char(-1), Char(127), Char(0)>>,
     Word          |-> <<Word(0), Word(65535), Word(256), Word(32768)>>,
     Short         |-> <<Short(-32768), Short(-1), Short(32767), Short(255)>>,
     DWord         |-> <<DWord(0), DWord(-1), DWord(65536),
                         DWord(-2147483647 - 1)>>,
     Int           |-> <<GffInt(-2147483647 - 1), GffInt(-1),
                         GffInt(2147483647), GffInt(65535)>>,
     DWord64       |-> <<DWord64(<<0, 0>>), DWord64(<<-1, -1>>),
                         DWord64(<<0, 1>>), DWord64(<<-1, 0>>)>>,
     Int64         |-> <<Int64(<<0, -2147483647 - 1>>), Int64(<<-1, -1>>),
                         Int64(<<-1, 2147483647>>), Int64(<<-1, 0>>)>>,
     Float         |-> <<Float(1036831949), Float(-1071644672), Float(1),
                         Float(0), Float(-2147483647 - 1), Float(1065353216),
                         Float(2139095040), Float(2139095039),
                         Float(8388607)>>,
     Double        |-> <<Double(<<-1717986918, 1069128089>>),
                         Double(<<0, 1072693248>>), Double(<<0, 0>>),
                         Double(<<1, 0>>)>>,
     CExoString    |-> <<CExoString(<<116>>), CExoString(<<>>)>>,
     CResRef       |-> <<CResRef(<<116>>)>>,
     CExoLocString |-> <<CExoLocString(7, (<<0, 0>> :> <<72>>))>>,
     Void          |-> <<Void(<<1>>), Void(<<>>)>>,
     Struct        |-> <<Struct(GffStruct(5, <<>>))>>,
     List          |-> <<List(<<>>), List(<<GffStruct(5, <<>>)>>)>>,
     Invalid       |-> <<Invalid>>]

\* a value is given to try_from
InitConv ==
    /\ tree = GffStruct(TagRoot, <<>>)
    /\ structs = <<>>
    /\ current_st_idx = 0
    /\ packer = PackerNew
    /\ packed = <<>>
    /\ pc = "unpack"
    /\ err = ""
    /\ buf = <<>>
    /\ wild = FALSE
    /\ parsed = NoParse
    /\ round = 1
    /\ prev = NoPrev
    /\ \E t \in DOMAIN SampleValues :
         \E k \in 1..Min(MaxSample, Len(SampleValues[t])) :
           gff_value = SampleValues[t][k]
    /\ unpacked = NoUnpack

\* the Result of T::try_from(&gff_value)
Unpacked(to, r) == [to |-> to, ok |-> r.ok, v |-> r.v]

\* T::try_from(&gff_value) for one of the primitive types T
TryFrom ==
    /\ pc = "unpack"
    /\ \E to \in Targets : unpacked' = Unpacked(to, try_from(to, gff_value))
    /\ pc' = "unpacked"
    /\ UNCHANGED <<tree, structs, current_st_idx, packer, packed, err, buf,
                   wild, parsed, round, prev, gff_value>>

NextConv == TryFrom

SpecConv == InitConv /\ [][NextConv]_vars

\* the width in bits of the integer variants and of the integer primitives
WidthOf(t) ==
    CASE t \in {"Byte", "Char", "u8", "i8"}         -> 8
      [] t \in {"Word", "Short", "u16", "i16"}      -> 16
      [] t \in {"DWord", "Int", "u32", "i32"}       -> 32
      [] t \in {"DWord64", "Int64", "u64", "i64"}   -> 64

UnsignedTypes == {"Byte", "Word", "DWord", "DWord64", "u8", "u16", "u32", "u64"}

SignedTypes == {"Char", "Short", "Int", "Int64", "i8", "i16", "i32", "i64"}

\* the variants t the claim lets convert to the primitive type to
Admits(to, t) ==
    CASE to = "f32" -> t = "Float"
      [] to = "f64" -> t \in {"Float", "Double"}
      [] to \in SignedTypes ->
           t \in SignedTypes /\ WidthOf(t) <= WidthOf(to)
      [] to \in UnsignedTypes ->
           t \in UnsignedTypes /\ WidthOf(t) <= WidthOf(to)

\* the bytes b, of the primitive type to, hold the number the bytes a hold:
\* b goes on from a with the bytes of no weight, 0, or 255 below zero
SameInteger(to, a, b) ==
    /\ Len(b) = WidthOf(to) \div 8
    /\ Len(a) <= Len(b)
    /\ SubSeq(b, 1, Len(a)) = a
    /\ \A i \in (Len(a) + 1)..Len(b) :
         b[i] = IF to \in SignedTypes /\ a[Len(a)] >= 128 THEN 255 ELSE 0

RECURSIVE OddNormal(_, _, _)
\* the number (-1)^s * m * 2^e, m > 0, with m odd
OddNormal(s, m, e) ==
    IF m % 2 = 0 THEN OddNormal(s, m \div 2, e + 1)
    ELSE [kind |-> "finite", s |-> s, m |-> m, e |-> e]

\* a zero, an infinity, a NaN, and an f64 that is no f32
Special(kind, s) == [kind |-> kind, s |-> s, m |-> 0, e |-> 0]

\* the number an f32 of bit pattern b is
FloatNum(b) ==
    LET s == IF b < 0 THEN 1 ELSE 0
        e == Magnitude(b) \div 8388608
        m == Magnitude(b) % 8388608
    IN IF e = 255 THEN Special(IF m = 0 THEN "inf" ELSE "nan", s)
       ELSE IF e = 0 /\ m = 0 THEN Special("zero", s)
       ELSE IF e = 0 THEN OddNormal(s, m, -149)
       ELSE OddNormal(s, 8388608 + m, e - 150)

\* the number an f64 of bit pattern <<lo, hi>> is, where an f32 can be it
DoubleNum(x) ==
    LET s     == IF x[2] < 0 THEN 1 ELSE 0
        e     == Magnitude(x[2]) \div 1048576
        top23 == (Magnitude(x[2]) % 1048576) * 8
                   + (IF x[1] < 0 THEN 4 ELSE 0) + Magnitude(x[1]) \div 536870912
        low29 == Magnitude(x[1]) % 536870912
    IN IF e = 2047
       THEN Special(IF top23 = 0 /\ low29 = 0 THEN "inf" ELSE "nan", s)
       ELSE IF e = 0
       THEN Special(IF top23 = 0 /\ low29 = 0 THEN "zero" ELSE "wide", s)
       ELSE IF low29 # 0 THEN Special("wide", s)
       ELSE OddNormal(s, 8388608 + top23, e - 1046)

\* the primitive r of type to is the number the payload of val is
SameNumber(to, val, r) ==
    CASE to = "f32" -> r = val.v
      [] to = "f64" /\ val.t = "Double" -> r = val.v
      [] to = "f64" /\ val.t = "Float"  -> DoubleNum(r) = FloatNum(val.v)
      [] OTHER -> SameInteger(to, Mem(val), r)

\* C29: TryFrom<&GffFieldValue> for a primitive type widens and never narrows
\* nor changes signedness: it succeeds exactly on the variants of the same
\* signedness that are no wider than the target (Float and Double for f64,
\* Float for f32), the number it gives is the number of the payload, and on
\* every other variant it gives an error.
ConversionWidens ==
    pc = "unpacked"
        => /\ unpacked.ok <=> Admits(unpacked.to, gff_value.t)
           /\ unpacked.ok => SameNumber(unpacked.to, gff_value, unpacked.v)

\* a negative Char has been widened to an i64
ConversionWidensWitness ==
    /\ pc = "unpacked"
    /\ unpacked.ok
    /\ unpacked.to = "i64"
    /\ gff_value.t = "Char"
    /\ gff_value.v < 0

\* a subnormal Float has been widened to an f64
FloatWidenedWitness ==
    /\ pc = "unpacked"
    /\ unpacked.ok
    /\ unpacked.to = "f64"
    /\ gff_value = Float(1)

\* the errors pack_struct returns
PackErrors == {"label too long", "ResRef too long", "Not handled yet"}

\* C30: when pack returns an error that is no write failure (a label too
\* long, a ResRef too long, a value that is not handled), no byte has been
\* handed to the writer: finalize and write are reached only after every
\* struct of the tree has been packed without error.
NothingWritten ==
    pc = "failed"
        => /\ err \in PackErrors
           /\ packer.writer = <<>>
           /\ buf = <<>>

\* pack has returned an error after a struct had been packed
NothingWrittenWitness ==
    /\ pc = "failed"
    /\ err \in PackErrors
    /\ Len(packed) > 1
    /\ packer.data.structs # <<>>
====
